---- MODULE Spec2Model ----
(***************************************************************************)
(* Model of the Emissions Factor Engine (model/emissionsfactors.py) of the *)
(* Drawdown solutions repository: the methodology enumerations and their   *)
(* free-text parsers, the CO2-equivalence multipliers, and the memoized    *)
(* grid emission-intensity tables of ElectricityGenOnGrid; and of the      *)
(* constructor of the Nuclear solution (solution/nuclear/__init__.py),     *)
(* which wires the scenario configuration through its collaborators.       *)
(*                                                                         *)
(* Text is a sequence of one-character strings.  Two characters outside    *)
(* ASCII are written as tokens: "LONG_S" is U+017F (latin small letter     *)
(* long s) and "KELVIN" is U+212A (kelvin sign).                           *)
(*                                                                         *)
(* A float literal 0.dddddddddffffff of the source is the pair             *)
(* <<ddddddddd, ffffff>>: its first nine decimals and its next six.        *)
(***************************************************************************)
EXTENDS Integers, Sequences, FiniteSets, TLC

VARIABLES
  co2equivs,    \* the CO2Equiv objects constructed so far
  engines,      \* the ElectricityGenOnGrid objects; an engine's identity is its index
  cache_CO2eq,  \* lru_cache of conv_ref_grid_CO2eq_per_KWh, least recently used first
  cache_CO2,    \* lru_cache of conv_ref_grid_CO2_per_KWh, least recently used first
  built,        \* history: every CO2-eq table returned, with the arguments in force
  rebinds,      \* history: how often an engine's attributes were rebound
  last,         \* the latest call and what it returned or raised
  scenarios,    \* the scenario registry of solution/nuclear: name -> configuration
  nuclear,      \* the Nuclear object under construction, or the one last constructed
  calls,        \* history: the collaborator calls of that construction, in order
  constructions, \* history: the scenario and the outcome of every finished construction
  frames,       \* the frames that concurrent runs build and hold, by reference
  runs          \* the concurrent runs that ask an engine for its two grid tables

vars ==
  <<co2equivs, engines, cache_CO2eq, cache_CO2, built, rebinds, last,
    scenarios, nuclear, calls, constructions, frames, runs>>

-----------------------------------------------------------------------------
(* Bounds *)

MaxPad == 1          \* spaces added before or after an input text
MaxCO2Equiv == 4     \* CO2Equiv objects constructed
MaxEngines == 2      \* ElectricityGenOnGrid objects constructed
MaxRebinds == 1      \* times a caller rebinds the attributes of an engine
MaxConstructions == 2 \* Nuclear objects whose construction is begun
MaxRuns == 2         \* runs that ask for grid tables at the same time

-----------------------------------------------------------------------------
(* Enumerations: emissionsfactors.py lines 11-13 *)

CO2EQ_SOURCE == {"CO2EQ_SOURCE.AR5_WITH_FEEDBACK", "CO2EQ_SOURCE.AR4", "CO2EQ_SOURCE.SAR"}
GRID_SOURCE == {"GRID_SOURCE.META", "GRID_SOURCE.IPCC"}
GRID_RANGE == {"GRID_RANGE.MEAN", "GRID_RANGE.HIGH", "GRID_RANGE.LOW"}

-----------------------------------------------------------------------------
(* str.lower() over the characters of the model *)

UpperLetters ==
  <<"A", "B", "C", "D", "E", "F", "G", "H", "I", "J", "K", "L", "M",
    "N", "O", "P", "Q", "R", "S", "T", "U", "V", "W", "X", "Y", "Z">>

LowerLetters ==
  <<"a", "b", "c", "d", "e", "f", "g", "h", "i", "j", "k", "l", "m",
    "n", "o", "p", "q", "r", "s", "t", "u", "v", "w", "x", "y", "z">>

\* Python: 'A'.lower() == 'a'; 'K'.lower() == 'k'; 'ſ'.lower() == 'ſ'
lower_map ==
  [c \in {UpperLetters[i] : i \in 1..26} \cup {"KELVIN"} |->
     IF c = "KELVIN" THEN "k" ELSE LowerLetters[CHOOSE i \in 1..26 : UpperLetters[i] = c]]

lower_identity(text) == text

lower(text) ==
  [i \in 1..Len(text) |-> IF text[i] \in DOMAIN lower_map THEN lower_map[text[i]] ELSE text[i]]

-----------------------------------------------------------------------------
(* The outcome of a call: a returned value or a raised exception *)

Return(v) == [outcome |-> "return", value |-> v]
Raise(exc) == [outcome |-> exc, value |-> "None"]

-----------------------------------------------------------------------------
(* string_to_conversion_source: emissionsfactors.py lines 40-54 *)

conversion_source_default_member(text) ==
  IF lower(text) = <<"a", "r", "5", " ", "w", "i", "t", "h", " ", "f", "e", "e", "d", "b", "a", "c", "k">>
  THEN Return("CO2EQ_SOURCE.AR5_WITH_FEEDBACK")
  ELSE IF lower(text) = <<"a", "r", "5", "_", "w", "i", "t", "h", "_", "f", "e", "e", "d", "b", "a", "c", "k">>
  THEN Return("CO2EQ_SOURCE.AR5_WITH_FEEDBACK")
  ELSE IF lower(text) = <<"a", "r", "4">>
  THEN Return("CO2EQ_SOURCE.AR4")
  ELSE IF lower(text) = <<"s", "a", "r">>
  THEN Return("CO2EQ_SOURCE.SAR")
  ELSE Return("CO2EQ_SOURCE.AR5_WITH_FEEDBACK")

string_to_conversion_source(text) ==
  IF lower(text) = <<"a", "r", "5", " ", "w", "i", "t", "h", " ", "f", "e", "e", "d", "b", "a", "c", "k">>
  THEN Return("CO2EQ_SOURCE.AR5_WITH_FEEDBACK")
  ELSE IF lower(text) = <<"a", "r", "5", "_", "w", "i", "t", "h", "_", "f", "e", "e", "d", "b", "a", "c", "k">>
  THEN Return("CO2EQ_SOURCE.AR5_WITH_FEEDBACK")
  ELSE IF lower(text) = <<"a", "r", "4">>
  THEN Return("CO2EQ_SOURCE.AR4")
  ELSE IF lower(text) = <<"s", "a", "r">>
  THEN Return("CO2EQ_SOURCE.SAR")
  ELSE Raise("ValueError")

(* string_to_emissions_grid_source: emissionsfactors.py lines 57-73 *)

string_to_emissions_grid_source(text) ==
  IF lower(text) = <<"m", "e", "t", "a", "-", "a", "n", "a", "l", "y", "s", "i", "s">>
  THEN Return("GRID_SOURCE.META")
  ELSE IF lower(text) = <<"m", "e", "t", "a", "_", "a", "n", "a", "l", "y", "s", "i", "s">>
  THEN Return("GRID_SOURCE.META")
  ELSE IF lower(text) = <<"m", "e", "t", "a", " ", "a", "n", "a", "l", "y", "s", "i", "s">>
  THEN Return("GRID_SOURCE.META")
  ELSE IF lower(text) = <<"i", "p", "c", "c", " ", "o", "n", "l", "y">>
  THEN Return("GRID_SOURCE.IPCC")
  ELSE IF lower(text) = <<"i", "p", "c", "c", "_", "o", "n", "l", "y">>
  THEN Return("GRID_SOURCE.IPCC")
  ELSE Raise("ValueError")

(* string_to_emissions_grid_range: emissionsfactors.py lines 76-90 *)

grid_range_without_median(text) ==
  IF lower(text) = <<"m", "e", "a", "n">>
  THEN Return("GRID_RANGE.MEAN")
  ELSE IF lower(text) = <<"h", "i", "g", "h">>
  THEN Return("GRID_RANGE.HIGH")
  ELSE IF lower(text) = <<"l", "o", "w">>
  THEN Return("GRID_RANGE.LOW")
  ELSE Raise("ValueError")

string_to_emissions_grid_range(text) ==
  IF lower(text) = <<"m", "e", "a", "n">>
  THEN Return("GRID_RANGE.MEAN")
  ELSE IF lower(text) = <<"m", "e", "d", "i", "a", "n">>
  THEN Return("GRID_RANGE.MEAN")
  ELSE IF lower(text) = <<"h", "i", "g", "h">>
  THEN Return("GRID_RANGE.HIGH")
  ELSE IF lower(text) = <<"l", "o", "w">>
  THEN Return("GRID_RANGE.LOW")
  ELSE Raise("ValueError")

-----------------------------------------------------------------------------
(* CO2Equiv.__init__: emissionsfactors.py lines 25-37 *)

\* Python truth value of the conversion_source argument: None and the empty
\* string are false, an enum member or a non-empty string is true.
truthy(x) == x \notin {"None", ""}

CO2Equiv_AR4_as_AR5(conversion_source) ==
  LET self_conversion_source ==
        IF truthy(conversion_source) THEN conversion_source
        ELSE "CO2EQ_SOURCE.AR5_WITH_FEEDBACK"
  IN  IF self_conversion_source \in {"CO2EQ_SOURCE.AR5_WITH_FEEDBACK", "CO2EQ_SOURCE.AR4"}
      THEN Return([conversion_source |-> self_conversion_source,
                   CH4multiplier |-> 34, N2Omultiplier |-> 298])
      ELSE IF self_conversion_source = "CO2EQ_SOURCE.SAR"
      THEN Return([conversion_source |-> self_conversion_source,
                   CH4multiplier |-> 21, N2Omultiplier |-> 310])
      ELSE Raise("ValueError")

CO2Equiv_default_SAR(conversion_source) ==
  LET self_conversion_source ==
        IF truthy(conversion_source) THEN conversion_source
        ELSE "CO2EQ_SOURCE.SAR"
  IN  IF self_conversion_source = "CO2EQ_SOURCE.AR5_WITH_FEEDBACK"
      THEN Return([conversion_source |-> self_conversion_source,
                   CH4multiplier |-> 34, N2Omultiplier |-> 298])
      ELSE IF self_conversion_source = "CO2EQ_SOURCE.AR4"
      THEN Return([conversion_source |-> self_conversion_source,
                   CH4multiplier |-> 25, N2Omultiplier |-> 298])
      ELSE IF self_conversion_source = "CO2EQ_SOURCE.SAR"
      THEN Return([conversion_source |-> self_conversion_source,
                   CH4multiplier |-> 21, N2Omultiplier |-> 310])
      ELSE Raise("ValueError")

CO2Equiv(conversion_source) ==
  LET self_conversion_source ==
        IF truthy(conversion_source) THEN conversion_source
        ELSE "CO2EQ_SOURCE.AR5_WITH_FEEDBACK"
  IN  IF self_conversion_source = "CO2EQ_SOURCE.AR5_WITH_FEEDBACK"
      THEN Return([conversion_source |-> self_conversion_source,
                   CH4multiplier |-> 34, N2Omultiplier |-> 298])
      ELSE IF self_conversion_source = "CO2EQ_SOURCE.AR4"
      THEN Return([conversion_source |-> self_conversion_source,
                   CH4multiplier |-> 25, N2Omultiplier |-> 298])
      ELSE IF self_conversion_source = "CO2EQ_SOURCE.SAR"
      THEN Return([conversion_source |-> self_conversion_source,
                   CH4multiplier |-> 21, N2Omultiplier |-> 310])
      ELSE Raise("ValueError")

-----------------------------------------------------------------------------
(* Embedded reference datasets: emissionsfactors.py lines 166-268.         *)
(* Each is a frame of 46 rows with columns Year, medium, high, low.        *)

Row(year, medium, high, low) == [Year |-> year, medium |-> medium, high |-> high, low |-> low]

\* "Emissions Factors"!A290:D336
world_meta_1 ==
  <<
    Row(2015, <<580491641, 0>>, <<726805942, 0>>, <<444419682, 0>>),
    Row(2016, <<580381730, 0>>, <<726494196, 0>>, <<444511607, 0>>),
    Row(2017, <<580191808, 0>>, <<726117383, 0>>, <<444508574, 0>>),
    Row(2018, <<579932742, 0>>, <<725684840, 0>>, <<444422987, 0>>),
    Row(2019, <<579613986, 0>>, <<725204693, 0>>, <<444265621, 0>>),
    Row(2020, <<581083120, 0>>, <<726403172, 0>>, <<446005409, 0>>),
    Row(2021, <<578829123, 0>>, <<724128766, 0>>, <<443771822, 0>>),
    Row(2022, <<578376324, 0>>, <<723544325, 0>>, <<443450666, 0>>),
    Row(2023, <<577890875, 0>>, <<722935374, 0>>, <<443088717, 0>>),
    Row(2024, <<577377675, 0>>, <<722306095, 0>>, <<442691597, 0>>),
    Row(2025, <<576724036, 0>>, <<721565698, 0>>, <<442124716, 0>>),
    Row(2026, <<576284921, 0>>, <<721000946, 0>>, <<441811237, 0>>),
    Row(2027, <<575712661, 0>>, <<720331282, 0>>, <<441336382, 0>>),
    Row(2028, <<575127412, 0>>, <<719653850, 0>>, <<440843316, 0>>),
    Row(2029, <<574531990, 0>>, <<718971040, 0>>, <<440335281, 0>>),
    Row(2030, <<573264022, 0>>, <<717635960, 0>>, <<439134425, 0>>),
    Row(2031, <<573320545, 0>>, <<717597727, 0>>, <<439285704, 0>>),
    Row(2032, <<572708901, 0>>, <<716910953, 0>>, <<438749190, 0>>),
    Row(2033, <<572095895, 0>>, <<716226301, 0>>, <<438207831, 0>>),
    Row(2034, <<571483259, 0>>, <<715545242, 0>>, <<437663617, 0>>),
    Row(2035, <<570821497, 0>>, <<714820866, 0>>, <<437064470, 0>>),
    Row(2036, <<570265395, 0>>, <<714199285, 0>>, <<436573847, 0>>),
    Row(2037, <<569663069, 0>>, <<713536875, 0>>, <<436031604, 0>>),
    Row(2038, <<569066909, 0>>, <<712883028, 0>>, <<435493132, 0>>),
    Row(2039, <<568478136, 0>>, <<712238796, 0>>, <<434959817, 0>>),
    Row(2040, <<567083308, 0>>, <<710887186, 0>>, <<433521771, 0>>),
    Row(2041, <<567327331, 0>>, <<710983152, 0>>, <<433913852, 0>>),
    Row(2042, <<566767481, 0>>, <<710373641, 0>>, <<433403663, 0>>),
    Row(2043, <<566219394, 0>>, <<709777559, 0>>, <<432903570, 0>>),
    Row(2044, <<565684079, 0>>, <<709195799, 0>>, <<432414701, 0>>),
    Row(2045, <<565044176, 0>>, <<708501694, 0>>, <<431829000, 0>>),
    Row(2046, <<564655700, 0>>, <<708078732, 0>>, <<431475009, 0>>),
    Row(2047, <<564164556, 0>>, <<707545143, 0>>, <<431026311, 0>>),
    Row(2048, <<563690051, 0>>, <<707029331, 0>>, <<430593113, 0>>),
    Row(2049, <<563233144, 0>>, <<706532169, 0>>, <<430176460, 0>>),
    Row(2050, <<563942003, 0>>, <<707108074, 0>>, <<431018275, 0>>),
    Row(2051, <<562376012, 0>>, <<705597348, 0>>, <<429397017, 0>>),
    Row(2052, <<561977781, 0>>, <<705161518, 0>>, <<429036385, 0>>),
    Row(2053, <<561601149, 0>>, <<704748013, 0>>, <<428696627, 0>>),
    Row(2054, <<561247194, 0>>, <<704357833, 0>>, <<428378896, 0>>),
    Row(2055, <<560917031, 0>>, <<703992021, 0>>, <<428084382, 0>>),
    Row(2056, <<560611819, 0>>, <<703651663, 0>>, <<427814318, 0>>),
    Row(2057, <<560332776, 0>>, <<703337903, 0>>, <<427569991, 0>>),
    Row(2058, <<560081211, 0>>, <<703051332, 0>>, <<427353431, 0>>),
    Row(2059, <<559858464, 0>>, <<702793863, 0>>, <<427165406, 0>>),
    Row(2060, <<559324305, 0>>, <<702254712, 0>>, <<426636240, 0>>)
  >>

\* "Emissions Factors"!F290:I336
world_ipcc ==
  <<
    Row(2015, <<484233480, 0>>, <<954301231, 0>>, <<415714612, 0>>),
    Row(2016, <<483874688, 0>>, <<953705809, 0>>, <<415699168, 0>>),
    Row(2017, <<483468578, 0>>, <<953091500, 0>>, <<415616211, 0>>),
    Row(2018, <<483022234, 0>>, <<952462141, 0>>, <<415474740, 0>>),
    Row(2019, <<482541828, 0>>, <<951821094, 0>>, <<415282576, 0>>),
    Row(2020, <<483415642, 0>>, <<952177536, 0>>, <<416520905, 0>>),
    Row(2021, <<481499413, 0>>, <<950514956, 0>>, <<414772457, 0>>),
    Row(2022, <<480945957, 0>>, <<949854330, 0>>, <<414465552, 0>>),
    Row(2023, <<480375891, 0>>, <<949191227, 0>>, <<414130387, 0>>),
    Row(2024, <<479792370, 0>>, <<948527306, 0>>, <<413771029, 0>>),
    Row(2025, <<479129875, 0>>, <<947838144, 0>>, <<413292095, 0>>),
    Row(2026, <<478595824, 0>>, <<947202675, 0>>, <<412993760, 0>>),
    Row(2027, <<477987474, 0>>, <<946544387, 0>>, <<412581910, 0>>),
    Row(2028, <<477375135, 0>>, <<945890190, 0>>, <<412158129, 0>>),
    Row(2029, <<476760605, 0>>, <<945241008, 0>>, <<411724756, 0>>),
    Row(2030, <<475609145, 0>>, <<944163265, 0>>, <<410760519, 0>>),
    Row(2031, <<475531330, 0>>, <<943960978, 0>>, <<410837481, 0>>),
    Row(2032, <<474919397, 0>>, <<943331597, 0>>, <<410387213, 0>>),
    Row(2033, <<474310926, 0>>, <<942710164, 0>>, <<409934675, 0>>),
    Row(2034, <<473707024, 0>>, <<942097253, 0>>, <<409481303, 0>>),
    Row(2035, <<473069620, 0>>, <<941464119, 0>>, <<408987650, 0>>),
    Row(2036, <<472516993, 0>>, <<940899135, 0>>, <<408577287, 0>>),
    Row(2037, <<471932749, 0>>, <<940314945, 0>>, <<408129046, 0>>),
    Row(2038, <<471356841, 0>>, <<939741296, 0>>, <<407684776, 0>>),
    Row(2039, <<470790068, 0>>, <<939178633, 0>>, <<407245483, 0>>),
    Row(2040, <<469678045, 0>>, <<938292813, 0>>, <<406144088, 0>>),
    Row(2041, <<469686967, 0>>, <<938087976, 0>>, <<406385614, 0>>),
    Row(2042, <<469152097, 0>>, <<937560823, 0>>, <<405966834, 0>>),
    Row(2043, <<468629289, 0>>, <<937046344, 0>>, <<405556635, 0>>),
    Row(2044, <<468119233, 0>>, <<936544955, 0>>, <<405155846, 0>>),
    Row(2045, <<467511264, 0>>, <<935948981, 0>>, <<404676294, 0>>),
    Row(2046, <<467140087, 0>>, <<935583127, 0>>, <<404385714, 0>>),
    Row(2047, <<466672339, 0>>, <<935123538, 0>>, <<404017938, 0>>),
    Row(2048, <<466220042, 0>>, <<934678755, 0>>, <<403662725, 0>>),
    Row(2049, <<465783884, 0>>, <<934249237, 0>>, <<403320851, 0>>),
    Row(2050, <<466202378, 0>>, <<934415166, 0>>, <<403919170, 0>>),
    Row(2051, <<464962806, 0>>, <<933437919, 0>>, <<402680274, 0>>),
    Row(2052, <<464579339, 0>>, <<933057122, 0>>, <<402383178, 0>>),
    Row(2053, <<464214935, 0>>, <<932693614, 0>>, <<402102653, 0>>),
    Row(2054, <<463870396, 0>>, <<932347970, 0>>, <<401839564, 0>>),
    Row(2055, <<463546558, 0>>, <<932020796, 0>>, <<401594807, 0>>),
    Row(2056, <<463244299, 0>>, <<931712734, 0>>, <<401369308, 0>>),
    Row(2057, <<462964542, 0>>, <<931424470, 0>>, <<401164041, 0>>),
    Row(2058, <<462707434, 0>>, <<931155097, 0>>, <<400980276, 0>>),
    Row(2059, <<462474856, 0>>, <<930907038, 0>>, <<400818857, 0>>),
    Row(2060, <<462020537, 0>>, <<930512637, 0>>, <<400404559, 0>>)
  >>

\* "Emissions Factors"!A290:D336 in the 2020 version of the Excel files.
world_meta_2 ==
  <<
    Row(2015, <<619753649, 484954>>, <<834200994, 227942>>, <<446911398, 737087>>),
    Row(2016, <<613223327, 855322>>, <<827419241, 197181>>, <<441324423, 346894>>),
    Row(2017, <<606715005, 275064>>, <<817903147, 977287>>, <<436594799, 95373>>),
    Row(2018, <<602650482, 222055>>, <<811957311, 805342>>, <<433711588, 716669>>),
    Row(2019, <<599546311, 600711>>, <<808809196, 292089>>, <<431043861, 809484>>),
    Row(2020, <<595844101, 320605>>, <<805066315, 637190>>, <<427859783, 304937>>),
    Row(2021, <<592313613, 174105>>, <<801495614, 192573>>, <<424823161, 474647>>),
    Row(2022, <<588839905, 934230>>, <<797975220, 897886>>, <<421832598, 87871>>),
    Row(2023, <<585449295, 836798>>, <<794534135, 403531>>, <<418911809, 360421>>),
    Row(2024, <<582134106, 340607>>, <<791164960, 38795>>, <<416054306, 144423>>),
    Row(2025, <<579212349, 557159>>, <<788184425, 39760>>, <<413534464, 382670>>),
    Row(2026, <<575701698, 847632>>, <<784615063, 765847>>, <<410505236, 766206>>),
    Row(2027, <<572571412, 159762>>, <<781421736, 177582>>, <<407802618, 493011>>),
    Row(2028, <<569490331, 287843>>, <<778275031, 115247>>, <<405141116, 198009>>),
    Row(2029, <<566452830, 841887>>, <<775169515, 850856>>, <<402515970, 114720>>),
    Row(2030, <<563582610, 910188>>, <<772224408, 553539>>, <<400032800, 926231>>),
    Row(2031, <<560487575, 191628>>, <<769061765, 323778>>, <<397356976, 482730>>),
    Row(2032, <<557549996, 15452>>, <<766050030, 587511>>, <<394814811, 934275>>),
    Row(2033, <<554636302, 401122>>, <<763060441, 667938>>, <<392292329, 996334>>),
    Row(2034, <<551742154, 484868>>, <<760088796, 218024>>, <<389785854, 191242>>),
    Row(2035, <<548784376, 564443>>, <<757051944, 289887>>, <<387224226, 526241>>),
    Row(2036, <<545979252, 104998>>, <<754165935, 635464>>, <<384793649, 89973>>),
    Row(2037, <<543106698, 312767>>, <<751211316, 808699>>, <<382304463, 418555>>),
    Row(2038, <<540236787, 794954>>, <<748258161, 570859>>, <<379817005, 842378>>),
    Row(2039, <<537352597, 396159>>, <<745289123, 477943>>, <<377317616, 531354>>),
    Row(2040, <<534257808, 148527>>, <<742113543, 256056>>, <<374637411, 133684>>),
    Row(2041, <<531581023, 73820>>, <<739345510, 659962>>, <<372313849, 192314>>),
    Row(2042, <<528685258, 247064>>, <<736362655, 581270>>, <<369802465, 48003>>),
    Row(2043, <<525775521, 926616>>, <<733365101, 778856>>, <<367278694, 303595>>),
    Row(2044, <<522848765, 756972>>, <<730349877, 395092>>, <<364739945, 323485>>),
    Row(2045, <<519796747, 547837>>, <<727206616, 166885>>, <<362092302, 98936>>),
    Row(2046, <<516932341, 500910>>, <<724254851, 488976>>, <<359607432, 66743>>),
    Row(2047, <<513936894, 157109>>, <<721169405, 528371>>, <<357008750, 494339>>),
    Row(2048, <<510912853, 777991>>, <<718054985, 950131>>, <<354385243, 670808>>),
    Row(2049, <<508316537, 396635>>, <<715381773, 638989>>, <<352134907, 312678>>),
    Row(2050, <<506594921, 787481>>, <<713622488, 394168>>, <<350653654, 650227>>),
    Row(2051, <<504688929, 275709>>, <<711690195, 955989>>, <<349010631, 116045>>),
    Row(2052, <<502854324, 722711>>, <<709827677, 277282>>, <<347428887, 775673>>),
    Row(2053, <<500981466, 874364>>, <<707928699, 401097>>, <<345814547, 929372>>),
    Row(2054, <<499068430, 228993>>, <<705991414, 176679>>, <<344165978, 406253>>),
    Row(2055, <<497072403, 296562>>, <<703969699, 319331>>, <<342445358, 912229>>),
    Row(2056, <<495114656, 946048>>, <<701995050, 774066>>, <<340760075, 761759>>),
    Row(2057, <<493070596, 435275>>, <<699932787, 17676>>, <<338999924, 825479>>),
    Row(2058, <<490979702, 541600>>, <<697825838, 98367>>, <<337199902, 765339>>),
    Row(2059, <<488840556, 318235>>, <<695672846, 558836>>, <<335358807, 437345>>),
    Row(2060, <<486810301, 162345>>, <<693612676, 11530>>, <<333607332, 510495>>)
  >>
-----------------------------------------------------------------------------
(* Result frames: pd.DataFrame(index=list(range(2015, 2061)), columns=[..]) *)

Years == 2015..2060

REGIONS ==
  <<"World", "OECD90", "Eastern Europe", "Asia (Sans Japan)",
    "Middle East and Africa", "Latin America", "China", "India", "EU", "USA">>

Columns == {REGIONS[i] : i \in 1..Len(REGIONS)}

NaN == <<-1, -1>>

\* A frame constructed without data holds NaN in every cell.
DataFrame == [c \in Columns |-> [y \in Years |-> NaN]]

\* grid.loc[:, column].values: the column as an array, in row order
values(grid, column) == [i \in 1..Len(grid) |-> grid[i][column]]

\* result.loc[:, column] = array: assigned by position, first row first
set_column_array(result, column, array) ==
  [result EXCEPT ![column] = [y \in Years |-> array[y - 2015 + 1]]]

\* result.loc[:, column] = scalar: broadcast to every row
set_column_scalar(result, column, scalar) ==
  [result EXCEPT ![column] = [y \in Years |-> scalar]]

-----------------------------------------------------------------------------
(* ElectricityGenOnGrid: emissionsfactors.py lines 93-163 *)

\* ElectricityGenOnGrid.__init__
ElectricityGenOnGrid(ac, grid_emissions_version) ==
  [ac |-> ac, grid_emissions_version |-> grid_emissions_version]

select_grid_IPCC_version_1_only(self) ==
  IF self.ac.emissions_grid_source = "GRID_SOURCE.IPCC" /\ self.grid_emissions_version = 1
  THEN <<world_ipcc>>
  ELSE IF self.ac.emissions_grid_source = "GRID_SOURCE.META" /\ self.grid_emissions_version = 1
  THEN <<world_meta_1>>
  ELSE IF self.ac.emissions_grid_source = "GRID_SOURCE.META" /\ self.grid_emissions_version = 2
  THEN <<world_meta_2>>
  ELSE <<>>

\* lines 111-116: the dataset bound to the local name grid, if any
select_grid(self) ==
  IF self.ac.emissions_grid_source = "GRID_SOURCE.IPCC"
  THEN <<world_ipcc>>
  ELSE IF self.ac.emissions_grid_source = "GRID_SOURCE.META" /\ self.grid_emissions_version = 1
  THEN <<world_meta_1>>
  ELSE IF self.ac.emissions_grid_source = "GRID_SOURCE.META" /\ self.grid_emissions_version = 2
  THEN <<world_meta_2>>
  ELSE <<>>

\* lines 130-138
fill_regions_CO2eq_OECD90_from_World(result) ==
  LET r1 == [result EXCEPT !["OECD90"] = result["World"]]
      r2 == set_column_scalar(r1, "Eastern Europe", <<724747956, 0>>)
      r3 == set_column_scalar(r2, "Asia (Sans Japan)", <<457658947, 0>>)
      r4 == set_column_scalar(r3, "Middle East and Africa", <<282243907, 0>>)
      r5 == set_column_scalar(r4, "Latin America", <<564394712, 0>>)
      r6 == set_column_scalar(r5, "China", <<535962403, 0>>)
      r7 == set_column_scalar(r6, "India", <<787832379, 0>>)
      r8 == set_column_scalar(r7, "EU", <<360629290, 0>>)
  IN  set_column_scalar(r8, "USA", <<665071666, 0>>)

fill_regions_CO2eq_without_USA(result) ==
  LET r1 == set_column_scalar(result, "OECD90", <<454068989, 0>>)
      r2 == set_column_scalar(r1, "Eastern Europe", <<724747956, 0>>)
      r3 == set_column_scalar(r2, "Asia (Sans Japan)", <<457658947, 0>>)
      r4 == set_column_scalar(r3, "Middle East and Africa", <<282243907, 0>>)
      r5 == set_column_scalar(r4, "Latin America", <<564394712, 0>>)
      r6 == set_column_scalar(r5, "China", <<535962403, 0>>)
      r7 == set_column_scalar(r6, "India", <<787832379, 0>>)
  IN  set_column_scalar(r7, "EU", <<360629290, 0>>)

fill_regions_CO2eq(result) ==
  LET r1 == set_column_scalar(result, "OECD90", <<454068989, 0>>)
      r2 == set_column_scalar(r1, "Eastern Europe", <<724747956, 0>>)
      r3 == set_column_scalar(r2, "Asia (Sans Japan)", <<457658947, 0>>)
      r4 == set_column_scalar(r3, "Middle East and Africa", <<282243907, 0>>)
      r5 == set_column_scalar(r4, "Latin America", <<564394712, 0>>)
      r6 == set_column_scalar(r5, "China", <<535962403, 0>>)
      r7 == set_column_scalar(r6, "India", <<787832379, 0>>)
      r8 == set_column_scalar(r7, "EU", <<360629290, 0>>)
  IN  set_column_scalar(r8, "USA", <<665071666, 0>>)

\* lines 118-125: the World column, taken from the dataset by grid range
world_column_high_low_swapped(self, result) ==
  LET grid == select_grid(self)
  IN  IF self.ac.emissions_grid_range = "GRID_RANGE.HIGH"
      THEN IF grid = <<>> THEN Raise("UnboundLocalError")
           ELSE Return(set_column_array(result, "World", values(grid[1], "low")))
      ELSE IF self.ac.emissions_grid_range = "GRID_RANGE.LOW"
      THEN IF grid = <<>> THEN Raise("UnboundLocalError")
           ELSE Return(set_column_array(result, "World", values(grid[1], "high")))
      ELSE IF self.ac.emissions_grid_range = "GRID_RANGE.MEAN"
      THEN IF grid = <<>> THEN Raise("UnboundLocalError")
           ELSE Return(set_column_array(result, "World", values(grid[1], "medium")))
      ELSE Raise("ValueError")

world_column_else_medium(self, result) ==
  LET grid == select_grid(self)
  IN  IF self.ac.emissions_grid_range = "GRID_RANGE.HIGH"
      THEN IF grid = <<>> THEN Raise("UnboundLocalError")
           ELSE Return(set_column_array(result, "World", values(grid[1], "high")))
      ELSE IF self.ac.emissions_grid_range = "GRID_RANGE.LOW"
      THEN IF grid = <<>> THEN Raise("UnboundLocalError")
           ELSE Return(set_column_array(result, "World", values(grid[1], "low")))
      ELSE IF grid = <<>> THEN Raise("UnboundLocalError")
           ELSE Return(set_column_array(result, "World", values(grid[1], "medium")))

world_column_skipped_without_grid(self, result) ==
  LET grid == select_grid(self)
  IN  IF self.ac.emissions_grid_range \notin GRID_RANGE THEN Raise("ValueError")
      ELSE IF grid = <<>> THEN Return(result)
      ELSE IF self.ac.emissions_grid_range = "GRID_RANGE.HIGH"
      THEN Return(set_column_array(result, "World", values(grid[1], "high")))
      ELSE IF self.ac.emissions_grid_range = "GRID_RANGE.LOW"
      THEN Return(set_column_array(result, "World", values(grid[1], "low")))
      ELSE Return(set_column_array(result, "World", values(grid[1], "medium")))

world_column(self, result) ==
  LET grid == select_grid(self)
  IN  IF self.ac.emissions_grid_range = "GRID_RANGE.HIGH"
      THEN IF grid = <<>> THEN Raise("UnboundLocalError")
           ELSE Return(set_column_array(result, "World", values(grid[1], "high")))
      ELSE IF self.ac.emissions_grid_range = "GRID_RANGE.LOW"
      THEN IF grid = <<>> THEN Raise("UnboundLocalError")
           ELSE Return(set_column_array(result, "World", values(grid[1], "low")))
      ELSE IF self.ac.emissions_grid_range = "GRID_RANGE.MEAN"
      THEN IF grid = <<>> THEN Raise("UnboundLocalError")
           ELSE Return(set_column_array(result, "World", values(grid[1], "medium")))
      ELSE Raise("ValueError")

\* The body of conv_ref_grid_CO2eq_per_KWh (lines 106-139), without the cache
conv_ref_grid_CO2eq_per_KWh(self) ==
  LET world == world_column(self, DataFrame)
  IN  IF world.outcome = "return"
      THEN Return(fill_regions_CO2eq(world.value))
      ELSE world

\* The body of conv_ref_grid_CO2_per_KWh (lines 148-163), without the cache
conv_ref_grid_CO2_per_KWh_World_from_grid(self) ==
  LET r0 == IF select_grid(self) = <<>>
            THEN set_column_scalar(DataFrame, "World", <<484512031, 78339>>)
            ELSE set_column_array(DataFrame, "World", values(select_grid(self)[1], "medium"))
      r1 == set_column_scalar(r0, "OECD90", <<392126590, 13504>>)
      r2 == set_column_scalar(r1, "Eastern Europe", <<659977316, 856384>>)
      r3 == set_column_scalar(r2, "Asia (Sans Japan)", <<385555833, 578110>>)
      r4 == set_column_scalar(r3, "Middle East and Africa", <<185499981, 45723>>)
      r5 == set_column_scalar(r4, "Latin America", <<491537630, 558014>>)
      r6 == set_column_scalar(r5, "China", <<474730312, 824249>>)
      r7 == set_column_scalar(r6, "India", <<725081980, 228424>>)
      r8 == set_column_scalar(r7, "EU", <<297016531, 229019>>)
  IN  Return(set_column_scalar(r8, "USA", <<594563066, 959381>>))

conv_ref_grid_CO2_per_KWh(self) ==
  LET r0 == set_column_scalar(DataFrame, "World", <<484512031, 78339>>)
      r1 == set_column_scalar(r0, "OECD90", <<392126590, 13504>>)
      r2 == set_column_scalar(r1, "Eastern Europe", <<659977316, 856384>>)
      r3 == set_column_scalar(r2, "Asia (Sans Japan)", <<385555833, 578110>>)
      r4 == set_column_scalar(r3, "Middle East and Africa", <<185499981, 45723>>)
      r5 == set_column_scalar(r4, "Latin America", <<491537630, 558014>>)
      r6 == set_column_scalar(r5, "China", <<474730312, 824249>>)
      r7 == set_column_scalar(r6, "India", <<725081980, 228424>>)
      r8 == set_column_scalar(r7, "EU", <<297016531, 229019>>)
  IN  Return(set_column_scalar(r8, "USA", <<594563066, 959381>>))

-----------------------------------------------------------------------------
(* functools.lru_cache() on a method: emissionsfactors.py lines 98, 142.   *)
(* The key is the positional arguments, here only self; an engine defines  *)
(* neither __eq__ nor __hash__, so the key is the engine's identity.  A    *)
(* call that raises stores nothing.                                        *)

lru_maxsize == 128

cache_has(cache, key) == \E i \in 1..Len(cache) : cache[i].key = key

cache_index(cache, key) == CHOOSE i \in 1..Len(cache) : cache[i].key = key

\* a hit returns the stored result
cache_get_most_recent(cache, key) == cache[Len(cache)].result

cache_get(cache, key) == cache[cache_index(cache, key)].result

\* a hit makes the entry the most recently used
cache_touch(cache, key) ==
  LET i == cache_index(cache, key)
  IN  SubSeq(cache, 1, i - 1) \o SubSeq(cache, i + 1, Len(cache)) \o <<cache[i]>>

\* a miss stores the result, evicting the least recently used entry when full
cache_put(cache, key, result) ==
  LET kept == IF Len(cache) >= lru_maxsize THEN Tail(cache) ELSE cache
  IN  Append(kept, [key |-> key, result |-> result])

-----------------------------------------------------------------------------
(* Inputs *)

txt_ar5_with_feedback == <<"A", "R", "5", " ", "w", "i", "t", "h", " ", "f", "e", "e", "d", "b", "a", "c", "k">>
txt_ar5_us_with_us_feedback == <<"A", "R", "5", "_", "w", "i", "t", "h", "_", "f", "e", "e", "d", "b", "a", "c", "k">>
txt_ar4 == <<"A", "R", "4">>
txt_sar == <<"S", "A", "R">>
txt_meta_dash_analysis == <<"M", "e", "t", "a", "-", "A", "n", "a", "l", "y", "s", "i", "s">>
txt_meta_us_analysis == <<"M", "e", "t", "a", "_", "A", "n", "a", "l", "y", "s", "i", "s">>
txt_meta_analysis == <<"M", "e", "t", "a", " ", "A", "n", "a", "l", "y", "s", "i", "s">>
txt_ipcc_only == <<"I", "P", "C", "C", " ", "O", "n", "l", "y">>
txt_ipcc_us_only == <<"I", "P", "C", "C", "_", "O", "n", "l", "y">>
txt_mean == <<"M", "e", "a", "n">>
txt_median == <<"M", "e", "d", "i", "a", "n">>
txt_high == <<"H", "i", "g", "h">>
txt_low == <<"L", "o", "w">>

txt_AR6 == <<"A", "R", "6">>
txt_bogus == <<"b", "o", "g", "u", "s">>
txt_long_s_ar == <<"LONG_S", "a", "r">>
txt_feedback_kelvin == <<"a", "r", "5", " ", "w", "i", "t", "h", " ", "f", "e", "e", "d", "b", "a", "c", "KELVIN">>

AcceptedConversionSource == {txt_ar5_with_feedback, txt_ar5_us_with_us_feedback, txt_ar4, txt_sar}
AcceptedGridSource ==
  {txt_meta_dash_analysis, txt_meta_us_analysis, txt_meta_analysis, txt_ipcc_only, txt_ipcc_us_only}
AcceptedGridRange == {txt_mean, txt_median, txt_high, txt_low}

BaseTexts ==
  AcceptedConversionSource \cup AcceptedGridSource \cup AcceptedGridRange
    \cup {txt_AR6, txt_bogus, txt_long_s_ar, txt_feedback_kelvin,
          <<>>, <<"A", "R", "5">>, <<"M", "e", "d", "i", "u", "m">>,
          <<"I", "P", "C", "C">>, <<"M", "e", "t", "a">>, <<"N", "o", "n", "e">>,
          <<"A", "R", "-", "4">>, <<"L", "o", "w", "e", "r">>}

\* Python str.lower() and str.upper() of the caller's text:
\* 'ſ'.upper() == 'S', 'K'.upper() == 'K'
upper_map ==
  [c \in {LowerLetters[i] : i \in 1..26} \cup {"LONG_S"} |->
     IF c = "LONG_S" THEN "S" ELSE UpperLetters[CHOOSE i \in 1..26 : LowerLetters[i] = c]]

lowercased(text) ==
  [i \in 1..Len(text) |->
     IF \E k \in 1..26 : UpperLetters[k] = text[i]
     THEN LowerLetters[CHOOSE k \in 1..26 : UpperLetters[k] = text[i]]
     ELSE IF text[i] = "KELVIN" THEN "k" ELSE text[i]]

uppercased(text) ==
  [i \in 1..Len(text) |-> IF text[i] \in DOMAIN upper_map THEN upper_map[text[i]] ELSE text[i]]

spaces(n) == [i \in 1..n |-> " "]

Texts ==
  LET cased == UNION {{t, lowercased(t), uppercased(t)} : t \in BaseTexts}
  IN  {spaces(i) \o t : t \in cased, i \in 0..MaxPad} \cup {t \o spaces(j) : t \in cased, j \in 0..MaxPad}

\* what a caller may pass as conversion_source: nothing, an empty string,
\* a member of the enumeration, or text that was never converted to a member
ConversionSourceArgs == {"None", ""} \cup CO2EQ_SOURCE \cup {"AR4", "bogus"}

\* ac.emissions_grid_source, ac.emissions_grid_range and grid_emissions_version
\* are not validated by the engine; "None" stands for a value outside the enum
GridSourceArgs == GRID_SOURCE \cup {"None"}
GridRangeArgs == GRID_RANGE \cup {"None"}
VersionArgs == {1, 2, 3}

AdvancedControls ==
  [emissions_grid_source : GridSourceArgs, emissions_grid_range : GridRangeArgs]

\* the engines of a run that holds several: the grid range of every scenario
\* of solution/nuclear is 'Mean'; either grid source, either dataset version
ScenarioControls ==
  [emissions_grid_source : GRID_SOURCE, emissions_grid_range : {"GRID_RANGE.MEAN"}]
ScenarioVersions == {1, 2}

-----------------------------------------------------------------------------
(* Numbers of the anchor arithmetic: solution/nuclear/__init__.py lines 666-680 *)

\* A float of the pipeline is NaN, +inf, or the finite value lit * num / den:
\* lit holds the literals of the source that are its factors, num / den is a
\* fraction in lowest terms.  The arithmetic is exact on finite values and
\* follows IEEE 754, as pandas does, on zero divisors, inf and NaN.
RECURSIVE gcd(_, _)
gcd(a, b) == IF b = 0 THEN a ELSE gcd(b, a % b)

float_nan == [kind |-> "nan", lit |-> <<>>, num |-> 0, den |-> 1]
float_inf == [kind |-> "inf", lit |-> <<>>, num |-> 0, den |-> 1]
float_zero == [kind |-> "num", lit |-> <<>>, num |-> 0, den |-> 1]

finite(lit, num, den) ==
  IF num = 0 THEN float_zero
  ELSE [kind |-> "num", lit |-> lit, num |-> num \div gcd(num, den), den |-> den \div gcd(num, den)]

float_of(n) == finite(<<>>, n, 1)

\* a float literal of the source, kept as its text
float_literal(text) == IF text = "0.0" THEN float_zero ELSE finite(<<text>>, 1, 1)

is_zero(x) == x.kind = "num" /\ x.num = 0

float_mul(x, y) ==
  IF x.kind = "nan" \/ y.kind = "nan" THEN float_nan
  ELSE IF x.kind = "inf" \/ y.kind = "inf"
  THEN IF is_zero(x) \/ is_zero(y) THEN float_nan ELSE float_inf
  ELSE finite(x.lit \o y.lit, x.num * y.num, x.den * y.den)

\* x / y for a divisor without literal factor (the divisors are market sizes);
\* a nonzero value over zero is inf, zero over zero is NaN, and nothing is raised
float_div(x, y) ==
  IF x.kind = "nan" \/ y.kind = "nan" THEN float_nan
  ELSE IF y.kind = "inf" THEN IF x.kind = "inf" THEN float_nan ELSE float_zero
  ELSE IF is_zero(y) THEN IF is_zero(x) THEN float_nan ELSE float_inf
  ELSE IF x.kind = "inf" THEN float_inf
  ELSE finite(x.lit, x.num * y.den, x.den * y.num)

\* pd.Series(data, index=index)
Series(data, index) ==
  [label \in {index[k] : k \in 1..Len(index)} |->
     data[CHOOSE k \in 1..Len(index) : index[k] = label]]

\* a * b and a / b of two Series: aligned on the union of their labels, NaN
\* where a label is missing on either side
series_mul(a, b) ==
  [label \in DOMAIN a \cup DOMAIN b |->
     IF label \in DOMAIN a \cap DOMAIN b THEN float_mul(a[label], b[label]) ELSE float_nan]

series_div(a, b) ==
  [label \in DOMAIN a \cup DOMAIN b |->
     IF label \in DOMAIN a \cap DOMAIN b THEN float_div(a[label], b[label]) ELSE float_nan]

\* series.fillna(value): replaces NaN, and only NaN
fillna(series, value) ==
  [label \in DOMAIN series |-> IF series[label].kind = "nan" THEN value ELSE series[label]]

\* pd.DataFrame(columns=REGIONS): no rows
empty_datapoints == [year \in {} |-> [c \in Columns |-> float_nan]]

\* frame.loc[year] = series: the row is added, aligned on the frame's columns
loc_set(frame, year, series) ==
  [y \in DOMAIN frame \cup {year} |->
     IF y = year
     THEN [c \in Columns |-> IF c \in DOMAIN series THEN series[c] ELSE float_nan]
     ELSE frame[y]]

\* zip(*pairs): the first and the second components
zip_star(pairs) ==
  <<[i \in 1..Len(pairs) |-> pairs[i][1]], [i \in 1..Len(pairs) |-> pairs[i][2]]>>

ht_ref_adoption_initial ==
  Series(<<float_literal("2417.0"), float_literal("2067.538596846472"),
           float_literal("337.7907984353286"), float_literal("422.9280547381077"),
           float_literal("19.434007595770563"), float_literal("34.286204887889326"),
           float_literal("186.72565568543357"), float_literal("81.7511387032866"),
           float_literal("911.5844464681002"), float_literal("822.7334922881862")>>, REGIONS)

\* each statement of lines 666-680 binds its value once: the value of an
\* operand is the one member of a singleton
ht_ref_adoption_final(ref_tam_per_region) ==
  CHOOSE final \in
    {series_mul(ref_tam_per_region[2050], quotient) :
       quotient \in {series_div(ht_ref_adoption_initial, ref_tam_per_region[2014])}} : TRUE

ht_ref_datapoints(ref_tam_per_region) ==
  CHOOSE datapoints \in
    {loc_set(loc_set(empty_datapoints, 2014, initial), 2050, fillna(final, float_zero)) :
       initial \in {ht_ref_adoption_initial},
       final \in {ht_ref_adoption_final(ref_tam_per_region)}} : TRUE

ht_pds_adoption_final_percentage(ac) ==
  LET ht_regions == zip_star(ac.pds_adoption_final_percentage)[1]
      ht_percentages == zip_star(ac.pds_adoption_final_percentage)[2]
  IN  Series([i \in 1..Len(ht_percentages) |-> float_literal(ht_percentages[i])], ht_regions)

ht_pds_adoption_final_from_2014_row(ac, pds_tam_per_region) ==
  series_mul(ht_pds_adoption_final_percentage(ac), pds_tam_per_region[2014])

ht_pds_adoption_final(ac, pds_tam_per_region) ==
  CHOOSE final \in
    {series_mul(percentage, pds_tam_per_region[2050]) :
       percentage \in {ht_pds_adoption_final_percentage(ac)}} : TRUE

ht_pds_datapoints_at_report_years(ac, pds_tam_per_region) ==
  loc_set(loc_set(empty_datapoints, ac.report_start_year, ht_ref_adoption_initial),
          ac.report_end_year, fillna(ht_pds_adoption_final(ac, pds_tam_per_region), float_zero))

ht_pds_datapoints(ac, pds_tam_per_region) ==
  CHOOSE datapoints \in
    {loc_set(loc_set(empty_datapoints, 2014, initial), 2050, fillna(final, float_zero)) :
       initial \in {ht_ref_adoption_initial},
       final \in {ht_pds_adoption_final(ac, pds_tam_per_region)}} : TRUE

-----------------------------------------------------------------------------
(* The scenario registry: solution/nuclear/__init__.py lines 33-202 *)

\* The fields of a scenario that Nuclear.__init__ and the engine read.  A field
\* the scenario does not set is "None".  AdvancedControls holds the grid source
\* and range as members of the enumerations, parsed from the configured text.

scenario_plausible ==
  [report_start_year |-> 2020,
   report_end_year |-> 2050,
   soln_ref_adoption_basis |-> "Custom",
   soln_ref_adoption_custom_name |-> "Custom REF Adoption mirroring decline in nuclear in Plausible SCenario",
   soln_pds_adoption_basis |-> "Existing Adoption Prognostications",
   soln_pds_adoption_custom_name |-> "None",
   soln_pds_adoption_prognostication_source |-> "Ambitious Cases",
   soln_pds_adoption_prognostication_trend |-> "3rd Poly",
   soln_pds_adoption_prognostication_growth |-> "High",
   source_until_2014 |-> "ALL SOURCES",
   ref_source_post_2014 |-> "Baseline Cases",
   pds_source_post_2014 |-> "Drawdown TAM: Drawdown TAM - Post Integration - Plausible Scenario",
   pds_base_adoption |-> <<<<"World", "2417.0">>, <<"OECD90", "2067.538596846472">>, <<"Eastern Europe", "337.7907984353286">>, <<"Asia (Sans Japan)", "422.9280547381077">>, <<"Middle East and Africa", "19.434007595770563">>, <<"Latin America", "34.286204887889326">>, <<"China", "186.72565568543357">>, <<"India", "81.7511387032866">>, <<"EU", "911.5844464681002">>, <<"USA", "822.7334922881862">>>>,
   pds_adoption_final_percentage |-> <<<<"World", "0.0">>, <<"OECD90", "0.0">>, <<"Eastern Europe", "0.0">>, <<"Asia (Sans Japan)", "0.0">>, <<"Middle East and Africa", "0.0">>, <<"Latin America", "0.0">>, <<"China", "0.0">>, <<"India", "0.0">>, <<"EU", "0.0">>, <<"USA", "0.0">>>>,
   soln_avg_annual_use |-> "7173.953333333334",
   conv_avg_annual_use |-> "4946.8401873420025",
   emissions_grid_source |-> string_to_emissions_grid_source(txt_meta_dash_analysis).value,
   emissions_grid_range |-> string_to_emissions_grid_range(txt_mean).value]

scenario_drawdown ==
  [report_start_year |-> 2020,
   report_end_year |-> 2050,
   soln_ref_adoption_basis |-> "Default",
   soln_ref_adoption_custom_name |-> "None",
   soln_pds_adoption_basis |-> "Existing Adoption Prognostications",
   soln_pds_adoption_custom_name |-> "None",
   soln_pds_adoption_prognostication_source |-> "Ambitious Cases",
   soln_pds_adoption_prognostication_trend |-> "3rd Poly",
   soln_pds_adoption_prognostication_growth |-> "Medium",
   source_until_2014 |-> "ALL SOURCES",
   ref_source_post_2014 |-> "Baseline Cases",
   pds_source_post_2014 |-> "Drawdown TAM: Drawdown TAM - Post Integration - Drawdown Scenario",
   pds_base_adoption |-> <<<<"World", "2417.0">>, <<"OECD90", "2067.538596846472">>, <<"Eastern Europe", "337.7907984353286">>, <<"Asia (Sans Japan)", "422.9280547381077">>, <<"Middle East and Africa", "19.434007595770563">>, <<"Latin America", "34.286204887889326">>, <<"China", "186.72565568543357">>, <<"India", "81.7511387032866">>, <<"EU", "911.5844464681002">>, <<"USA", "822.7334922881862">>>>,
   pds_adoption_final_percentage |-> <<<<"World", "0.0">>, <<"OECD90", "0.0">>, <<"Eastern Europe", "0.0">>, <<"Asia (Sans Japan)", "0.0">>, <<"Middle East and Africa", "0.0">>, <<"Latin America", "0.0">>, <<"China", "0.0">>, <<"India", "0.0">>, <<"EU", "0.0">>, <<"USA", "0.0">>>>,
   soln_avg_annual_use |-> "7173.953333333334",
   conv_avg_annual_use |-> "4946.8401873420025",
   emissions_grid_source |-> string_to_emissions_grid_source(txt_meta_dash_analysis).value,
   emissions_grid_range |-> string_to_emissions_grid_range(txt_mean).value]

scenario_optimum ==
  [report_start_year |-> 2020,
   report_end_year |-> 2050,
   soln_ref_adoption_basis |-> "Default",
   soln_ref_adoption_custom_name |-> "None",
   soln_pds_adoption_basis |-> "Fully Customized PDS",
   soln_pds_adoption_custom_name |-> "Optimum Nuclear reduces to 0% of TAM by 2050, based on AMPERE RefPol Scenario (2014) till peaking",
   soln_pds_adoption_prognostication_source |-> "None",
   soln_pds_adoption_prognostication_trend |-> "None",
   soln_pds_adoption_prognostication_growth |-> "None",
   source_until_2014 |-> "ALL SOURCES",
   ref_source_post_2014 |-> "Baseline Cases",
   pds_source_post_2014 |-> "Drawdown TAM: Drawdown TAM - Post Integration - Optimum Scenario",
   pds_base_adoption |-> <<<<"World", "2417.0">>, <<"OECD90", "2067.538596846472">>, <<"Eastern Europe", "337.7907984353286">>, <<"Asia (Sans Japan)", "422.9280547381077">>, <<"Middle East and Africa", "19.434007595770563">>, <<"Latin America", "34.286204887889326">>, <<"China", "186.72565568543357">>, <<"India", "81.7511387032866">>, <<"EU", "911.5844464681002">>, <<"USA", "822.7334922881862">>>>,
   pds_adoption_final_percentage |-> <<<<"World", "0.0">>, <<"OECD90", "0.0">>, <<"Eastern Europe", "0.0">>, <<"Asia (Sans Japan)", "0.0">>, <<"Middle East and Africa", "0.0">>, <<"Latin America", "0.0">>, <<"China", "0.0">>, <<"India", "0.0">>, <<"EU", "0.0">>, <<"USA", "0.0">>>>,
   soln_avg_annual_use |-> "7173.953333333334",
   conv_avg_annual_use |-> "4946.8401873420025",
   emissions_grid_source |-> string_to_emissions_grid_source(txt_meta_dash_analysis).value,
   emissions_grid_range |-> string_to_emissions_grid_range(txt_mean).value]

default_scenario == "PDS-12p2050-Plausible (Book Ed. 1)"

DefinedScenarios == {"PDS-12p2050-Plausible (Book Ed. 1)", "PDS-10p2050-Drawdown Scenario", "PDS-0p2050-Optimum (Book Ed.1)"}

defined_scenarios ==
  [name \in DefinedScenarios |->
     IF name = "PDS-12p2050-Plausible (Book Ed. 1)" THEN scenario_plausible
     ELSE IF name = "PDS-10p2050-Drawdown Scenario" THEN scenario_drawdown
     ELSE scenario_optimum]

-----------------------------------------------------------------------------
(* The data-source catalogs: solution/nuclear/__init__.py lines 237-432, 450-620 *)

\* the World categories and their datasets; the regional entries repeat them
tam_ref_data_sources ==
  [category \in {"Baseline Cases", "Conservative Cases", "Ambitious Cases", "100% RES2050 Case"} |->
     IF category = "Baseline Cases"
     THEN {"Based on: IEA ETP 2016 6DS", "Based on: AMPERE 2014 MESSAGE MACRO Reference",
           "Based on: AMPERE 2014 GEM E3 Reference", "Based on: AMPERE 2014 IMAGE TIMER Reference"}
     ELSE IF category = "Conservative Cases"
     THEN {"Based on: IEA ETP 2016 4DS", "Based on: AMPERE 2014 MESSAGE MACRO 550",
           "Based on: AMPERE 2014 GEM E3 550", "Based on: AMPERE 2014 IMAGE TIMER 550",
           "Based on: Greenpeace 2015 Reference"}
     ELSE IF category = "Ambitious Cases"
     THEN {"Based on: IEA ETP 2016 2DS", "Based on: AMPERE 2014 MESSAGE MACRO 450",
           "Based on: AMPERE 2014 GEM E3 450", "Based on: AMPERE 2014 IMAGE TIMER 450",
           "Based on: Greenpeace 2015 Energy Revolution"}
     ELSE {"Based on: Greenpeace 2015 Advanced Revolution"}]

ad_data_sources ==
  [category \in {"Baseline Cases", "Conservative Cases", "Ambitious Cases", "100% Case"} |->
     IF category = "Baseline Cases"
     THEN {"Based on: IEA ETP 2016 6DS", "Based on: AMPERE 2014 MESSAGE MACRO Reference",
           "Based on: AMPERE 2014 GEM E3 Reference", "Based on: AMPERE 2014 IMAGE TIMER Reference"}
     ELSE IF category = "Conservative Cases"
     THEN {"Based on: IEA ETP 2016 4DS", "Based on: AMPERE 2014 MESSAGE MACRO 550",
           "Based on: AMPERE 2014 GEM E3 550", "Based on: AMPERE 2014 IMAGE TIMER 550"}
     ELSE IF category = "Ambitious Cases"
     THEN {"Based on: IEA ETP 2016 2DS", "Based on: AMPERE 2014 MESSAGE MACRO 450",
           "Based on: AMPERE 2014 GEM E3 450", "Based on: AMPERE 2014 IMAGE TIMER 450"}
     ELSE {"Based on Greenpeace Advanced Revolution Scenario"}]

\* the names a source selection may use: a category, a dataset of one, or the
\* keyword for all of them
known_sources(data_sources) ==
  {"ALL SOURCES"} \cup DOMAIN data_sources \cup UNION {data_sources[c] : c \in DOMAIN data_sources}

-----------------------------------------------------------------------------
(* The configuration tables: solution/nuclear/__init__.py lines 219-236, 438-449 *)

TamColumns == {"World", "PDS World"} \cup Columns

tamconfig_PDS_World_as_World(ac) ==
  [source_until_2014 |->
     [c \in TamColumns |-> IF c \in {"World", "PDS World"} THEN ac.source_until_2014 ELSE "ALL SOURCES"],
   source_after_2014 |->
     [c \in TamColumns |-> IF c \in {"World", "PDS World"} THEN ac.ref_source_post_2014
                           ELSE "ALL SOURCES"],
   trend |-> [c \in TamColumns |-> "3rd Poly"],
   growth |-> [c \in TamColumns |-> "Medium"],
   low_sd_mult |-> [c \in TamColumns |-> "1.0"],
   high_sd_mult |-> [c \in TamColumns |-> "1.0"]]

tamconfig(ac) ==
  [source_until_2014 |->
     [c \in TamColumns |-> IF c \in {"World", "PDS World"} THEN ac.source_until_2014 ELSE "ALL SOURCES"],
   source_after_2014 |->
     [c \in TamColumns |-> IF c = "World" THEN ac.ref_source_post_2014
                           ELSE IF c = "PDS World" THEN ac.pds_source_post_2014
                           ELSE "ALL SOURCES"],
   trend |-> [c \in TamColumns |-> "3rd Poly"],
   growth |-> [c \in TamColumns |-> "Medium"],
   low_sd_mult |-> [c \in TamColumns |-> "1.0"],
   high_sd_mult |-> [c \in TamColumns |-> "1.0"]]

adconfig(ac) ==
  [trend |->
     [c \in Columns |-> IF c = "World" THEN ac.soln_pds_adoption_prognostication_trend ELSE "3rd Poly"],
   growth |->
     [c \in Columns |-> IF c = "World" THEN ac.soln_pds_adoption_prognostication_growth ELSE "Medium"],
   low_sd_mult |-> [c \in Columns |-> "1.0"],
   high_sd_mult |-> [c \in Columns |-> "1.0"]]

-----------------------------------------------------------------------------
(* Inputs of the pipeline *)

\* A market table as the pipeline reads it: its rows of 2014 and 2050.  The
\* market size of a region is missing, zero, or one of two positive values;
\* shift moves the values along the regions.
RefSizes == <<float_nan, float_zero, float_of(1), float_of(2)>>
PdsSizes == <<float_nan, float_zero, float_of(3), float_of(5)>>

tam_row(sizes, shift) ==
  [c \in Columns |->
     sizes[(((CHOOSE i \in 1..Len(REGIONS) : REGIONS[i] = c) + shift) % Len(sizes)) + 1]]

tam_per_region(sizes, shift_2014, shift_2050) ==
  [year \in {2014, 2050} |-> IF year = 2014 THEN tam_row(sizes, shift_2014) ELSE tam_row(sizes, shift_2050)]

\* what tam.TAM projects for the reference and the intervention pathway
TamProjections ==
  {[ref |-> tam_per_region(RefSizes, a, b), pds |-> tam_per_region(PdsSizes, b, a)] :
     a \in 0..1, b \in 0..3}

\* a scenario added to the registry beside the three of the source: the
\* plausible scenario with one selection changed, or with another source
\* until 2014 and another reporting window
ExtraScenario == "PDS-registered"

half_of_market ==
  [i \in 1..Len(REGIONS) |-> <<REGIONS[i], IF i % 2 = 1 THEN "0.5" ELSE "0.25">>]

ExtraControls ==
  {[scenario_plausible EXCEPT !.soln_pds_adoption_basis = "Linear"],
   [scenario_plausible EXCEPT !.soln_pds_adoption_basis = "Fully Customized PDS",
                              !.soln_pds_adoption_prognostication_source = "Nonexistent Cases"],
   [scenario_plausible EXCEPT !.soln_pds_adoption_prognostication_source = "Nonexistent Cases"],
   [scenario_plausible EXCEPT !.soln_pds_adoption_prognostication_source =
                                "Based on: AMPERE 2014 GEM E3 450"],
   [scenario_plausible EXCEPT !.ref_source_post_2014 = "Nonexistent Cases"],
   [scenario_plausible EXCEPT !.soln_ref_adoption_basis = "Linear"],
   [scenario_plausible EXCEPT !.pds_adoption_final_percentage = half_of_market],
   [scenario_plausible EXCEPT !.source_until_2014 = "Baseline Cases",
                              !.report_start_year = 2025, !.report_end_year = 2040]}

Registries ==
  {defined_scenarios} \cup
  {[name \in DefinedScenarios \cup {ExtraScenario} |->
      IF name = ExtraScenario THEN ac ELSE defined_scenarios[name]] : ac \in ExtraControls}

\* the argument of Nuclear(): no name, a defined name, or another name
ScenarioArgs == {"None"} \cup DefinedScenarios \cup {ExtraScenario}

-----------------------------------------------------------------------------
(* The collaborators outside the two source files *)

\* a collaborator is given the configuration object itself and only reads it
collaborator_ac(ac) == ac

\* tam.TAM looks up the World source of the reference pathway in its catalog
tam_TAM(config, data_sources) ==
  IF config.source_after_2014["World"] \in known_sources(data_sources)
  THEN Return("tam.TAM")
  ELSE Raise("UnknownDataSource")

\* adoptiondata.AdoptionData looks up the prognostication source when one
\* of its adoption methods is called, not when it is constructed
ad_adoption_data_per_region(ac, data_sources) ==
  IF ac.soln_pds_adoption_prognostication_source \in known_sources(data_sources)
  THEN Return("self.ad.adoption_data_per_region()")
  ELSE Raise("UnknownDataSource")

construct(callee, kwargs) == [callee |-> callee, kwargs |-> kwargs]
invoke(callee) == [callee |-> callee, kwargs |-> <<>>]

-----------------------------------------------------------------------------
(* Nuclear.__init__: solution/nuclear/__init__.py lines 212-744 *)

NoSelf ==
  [scenario |-> <<>>, ac |-> <<>>, tm |-> <<>>, ad |-> <<>>, pds_ca |-> <<>>, ref_ca |-> <<>>,
   ht |-> <<>>, ef |-> <<>>, ua |-> <<>>, fc |-> <<>>, oc |-> <<>>, c4 |-> <<>>, c2 |-> <<>>,
   r2s |-> <<>>]

\* a local variable is <<>> while unbound and <<value>> once bound
NoLocals ==
  [tamconfig |-> <<>>, ref_tam_per_region |-> <<>>, pds_tam_per_region |-> <<>>,
   adconfig |-> <<>>, ref_adoption_data_per_region |-> <<>>,
   pds_adoption_data_per_region |-> <<>>, pds_adoption_trend_per_region |-> <<>>,
   pds_adoption_is_single_source |-> <<>>, ht_ref_datapoints |-> <<>>,
   ht_pds_datapoints |-> <<>>, soln_pds_tot_iunits_reqd |-> <<>>,
   soln_ref_tot_iunits_reqd |-> <<>>, conv_ref_tot_iunits |-> <<>>,
   soln_net_annual_funits_adopted |-> <<>>]

\* pc names the statement __init__ runs next; object is what the caller of
\* Nuclear() receives
NoNuclear ==
  [pc |-> "idle", scenario |-> "None", self |-> NoSelf, locals |-> NoLocals,
   outcome |-> "none", object |-> <<>>]

-----------------------------------------------------------------------------
(* Concurrent runs on the memoized builders: emissionsfactors.py lines      *)
(* 98-163, called from solution/nuclear/__init__.py lines 689 and 727-740   *)

\* A run is the part of a construction that is handed an engine and
\* asks it for the CO2 table, then for the CO2-eq table, and hands both to
\* CO2Calcs.  pc is the statement the run is at; result is the frame the body
\* of a builder is filling; got holds the tables returned to the run, each
\* with the content it had when it was returned.
NoRun ==
  [pc |-> "idle", ef |-> 0, builder |-> "None", result |-> <<>>, got |-> <<>>, seen |-> <<>>]

NoRuns == [r \in 1..MaxRuns |-> NoRun]

\* A reference names a frame by the call that made it: the run and the
\* builder.  A frame that was never made is <<>>.
Builders == {"conv_ref_grid_CO2_per_KWh", "conv_ref_grid_CO2eq_per_KWh"}
FrameRefs == (1..MaxRuns) \X Builders
NoFrames == [ref \in FrameRefs |-> <<>>]

\* result = pd.DataFrame(index=..., columns=...): a new frame, NaN in every cell
new_frame_module_level(heap, call) ==
  [ref |-> <<1, call[2]>>, heap |-> [heap EXCEPT ![<<1, call[2]>>] = <<DataFrame>>]]

new_frame(heap, call) == [ref |-> call, heap |-> [heap EXCEPT ![call] = <<DataFrame>>]]

\* lru_cache after the body has returned: the result is stored unless the
\* key was stored while the body ran; the caller gets its own result
cache_store(cache, key, result) ==
  IF cache_has(cache, key) THEN cache ELSE cache_put(cache, key, result)

\* CO2Calcs keeps the two tables it is given and reads them
co2calcs_CO2Calcs(heap, tables) == heap

\* the builder a run calls after the one it has called
after_builder(run, table) ==
  IF run.builder = "conv_ref_grid_CO2_per_KWh"
  THEN [run EXCEPT !.pc = "call", !.builder = "conv_ref_grid_CO2eq_per_KWh", !.result = <<>>,
                   !.got = Append(@, table)]
  ELSE [run EXCEPT !.pc = "consume", !.result = <<>>, !.got = Append(@, table)]

-----------------------------------------------------------------------------
(* State machine *)

NoCall ==
  [op |-> "none", text |-> <<>>, arg |-> "None", engine |-> 0, self |-> <<>>,
   hit |-> FALSE, outcome |-> "none", member |-> "None", object |-> <<>>, table |-> <<>>]

Init ==
  /\ co2equivs = <<>>
  /\ engines = <<>>
  /\ cache_CO2eq = <<>>
  /\ cache_CO2 = <<>>
  /\ built = {}
  /\ rebinds = 0
  /\ last = NoCall
  /\ scenarios = defined_scenarios
  /\ nuclear = NoNuclear
  /\ calls = <<>>
  /\ constructions = <<>>
  /\ frames = NoFrames
  /\ runs = NoRuns

Parsed(op, text, r) ==
  [NoCall EXCEPT !.op = op, !.text = text, !.outcome = r.outcome, !.member = r.value]

ParseConversionSource ==
  \E text \in Texts :
    /\ last' = Parsed("string_to_conversion_source", text, string_to_conversion_source(text))
    /\ UNCHANGED <<co2equivs, engines, cache_CO2eq, cache_CO2, built, rebinds,
                   scenarios, nuclear, calls, constructions, frames, runs>>

ParseGridSource ==
  \E text \in Texts :
    /\ last' = Parsed("string_to_emissions_grid_source", text, string_to_emissions_grid_source(text))
    /\ UNCHANGED <<co2equivs, engines, cache_CO2eq, cache_CO2, built, rebinds,
                   scenarios, nuclear, calls, constructions, frames, runs>>

ParseGridRange ==
  \E text \in Texts :
    /\ last' = Parsed("string_to_emissions_grid_range", text, string_to_emissions_grid_range(text))
    /\ UNCHANGED <<co2equivs, engines, cache_CO2eq, cache_CO2, built, rebinds,
                   scenarios, nuclear, calls, constructions, frames, runs>>

\* the multipliers held by the class instead of by each object
NewCO2Equiv_class_attributes ==
  \E conversion_source \in ConversionSourceArgs :
    LET r == CO2Equiv(conversion_source)
    IN  /\ Len(co2equivs) < MaxCO2Equiv
        /\ co2equivs' =
             IF r.outcome = "return"
             THEN Append([i \in 1..Len(co2equivs) |->
                            [co2equivs[i] EXCEPT !.CH4multiplier = r.value.CH4multiplier,
                                                 !.N2Omultiplier = r.value.N2Omultiplier]],
                         r.value)
             ELSE co2equivs
        /\ last' = [NoCall EXCEPT !.op = "CO2Equiv", !.arg = conversion_source,
                                  !.outcome = r.outcome,
                                  !.object = IF r.outcome = "return" THEN <<r.value>> ELSE <<>>]
        /\ UNCHANGED <<engines, cache_CO2eq, cache_CO2, built, rebinds,
                       scenarios, nuclear, calls, constructions, frames, runs>>

NewCO2Equiv ==
  \E conversion_source \in ConversionSourceArgs :
    LET r == CO2Equiv(conversion_source)
    IN  /\ Len(co2equivs) < MaxCO2Equiv
        /\ co2equivs' = IF r.outcome = "return" THEN Append(co2equivs, r.value) ELSE co2equivs
        /\ last' = [NoCall EXCEPT !.op = "CO2Equiv", !.arg = conversion_source,
                                  !.outcome = r.outcome,
                                  !.object = IF r.outcome = "return" THEN <<r.value>> ELSE <<>>]
        /\ UNCHANGED <<engines, cache_CO2eq, cache_CO2, built, rebinds,
                       scenarios, nuclear, calls, constructions, frames, runs>>

NewEngine ==
  \E ac \in ScenarioControls, grid_emissions_version \in ScenarioVersions :
    /\ Len(engines) < MaxEngines
    /\ engines' = Append(engines, ElectricityGenOnGrid(ac, grid_emissions_version))
    /\ UNCHANGED <<co2equivs, cache_CO2eq, cache_CO2, built, rebinds, last,
                   scenarios, nuclear, calls, constructions, frames, runs>>

\* a memoized method call: the stored result on a hit, the body on a miss
lru_call(cache, key, body) ==
  IF cache_has(cache, key)
  THEN [hit |-> TRUE, r |-> Return(cache_get(cache, key)), cache |-> cache_touch(cache, key)]
  ELSE [hit |-> FALSE, r |-> body,
        cache |-> IF body.outcome = "return" THEN cache_put(cache, key, body.value) ELSE cache]

Called(op, e, c) ==
  [NoCall EXCEPT !.op = op, !.engine = e, !.self = <<engines[e]>>, !.hit = c.hit,
                 !.outcome = c.r.outcome,
                 !.table = IF c.r.outcome = "return" THEN <<c.r.value>> ELSE <<>>]

\* what the history keeps of a returned CO2-eq table
Built(self, table, again) ==
  [grid_source |-> self.ac.emissions_grid_source, grid_range |-> self.ac.emissions_grid_range,
   version |-> self.grid_emissions_version, table |-> table, again |-> again]

Call_conv_ref_grid_CO2eq_per_KWh ==
  \E e \in 1..Len(engines) :
    LET c == lru_call(cache_CO2eq, e, conv_ref_grid_CO2eq_per_KWh(engines[e]))
    IN  /\ cache_CO2eq' = c.cache
        /\ last' = Called("conv_ref_grid_CO2eq_per_KWh", e, c)
        /\ built' =
             IF c.r.outcome # "return" THEN built
             ELSE IF \E b \in built : b = Built(engines[e], c.r.value, b.again)
             THEN {b \in built : b # Built(engines[e], c.r.value, b.again)}
                    \cup {Built(engines[e], c.r.value, TRUE)}
             ELSE built \cup {Built(engines[e], c.r.value, FALSE)}
        /\ UNCHANGED <<co2equivs, engines, cache_CO2, rebinds,
                       scenarios, nuclear, calls, constructions, frames, runs>>

Call_conv_ref_grid_CO2_per_KWh ==
  \E e \in 1..Len(engines) :
    LET c == lru_call(cache_CO2, e, conv_ref_grid_CO2_per_KWh(engines[e]))
    IN  /\ cache_CO2' = c.cache
        /\ last' = Called("conv_ref_grid_CO2_per_KWh", e, c)
        /\ UNCHANGED <<co2equivs, engines, cache_CO2eq, built, rebinds,
                       scenarios, nuclear, calls, constructions, frames, runs>>

\* ac and grid_emissions_version are plain attributes: a caller may rebind them
SetAttributes ==
  \E e \in 1..Len(engines), ac \in ScenarioControls, grid_emissions_version \in ScenarioVersions :
    /\ rebinds < MaxRebinds
    /\ engines' = [engines EXCEPT ![e] = ElectricityGenOnGrid(ac, grid_emissions_version)]
    /\ rebinds' = rebinds + 1
    /\ UNCHANGED <<co2equivs, cache_CO2eq, cache_CO2, built, last,
                   scenarios, nuclear, calls, constructions, frames, runs>>

\* one engine, of any configuration
InitTable ==
  /\ co2equivs = <<>>
  /\ engines \in {<<ElectricityGenOnGrid(ac, grid_emissions_version)>> :
                    ac \in AdvancedControls, grid_emissions_version \in VersionArgs}
  /\ cache_CO2eq = <<>>
  /\ cache_CO2 = <<>>
  /\ built = {}
  /\ rebinds = 0
  /\ last = NoCall
  /\ scenarios = defined_scenarios
  /\ nuclear = NoNuclear
  /\ calls = <<>>
  /\ constructions = <<>>
  /\ frames = NoFrames
  /\ runs = NoRuns

\* the registry with or without an added scenario; no engine yet
InitPipeline ==
  /\ co2equivs = <<>>
  /\ engines = <<>>
  /\ cache_CO2eq = <<>>
  /\ cache_CO2 = <<>>
  /\ built = {}
  /\ rebinds = 0
  /\ last = NoCall
  /\ scenarios \in Registries
  /\ nuclear = NoNuclear
  /\ calls = <<>>
  /\ constructions = <<>>
  /\ frames = NoFrames
  /\ runs = NoRuns

\* every collaborator is handed self.ac, the registry's own object
HandOver_rebinds_basis ==
  [scenarios EXCEPT ![nuclear.self.scenario[1]] =
     [collaborator_ac(@) EXCEPT !.soln_pds_adoption_basis = "Linear"]]

HandOver == [scenarios EXCEPT ![nuclear.self.scenario[1]] = collaborator_ac(@)]

\* an exception leaves __init__: the caller receives no object
Failed(n, exc) ==
  /\ nuclear' = [n EXCEPT !.pc = "failed", !.outcome = exc]
  /\ constructions' = Append(constructions, [scenario |-> n.self.scenario[1], outcome |-> exc])

\* a name the registry does not hold taken as no name
Configure_unknown_as_default ==
  \E arg \in ScenarioArgs :
    LET scenario == IF arg = "None" \/ arg \notin DOMAIN scenarios THEN default_scenario ELSE arg
        n == [NoNuclear EXCEPT !.scenario = arg, !.self.scenario = <<scenario>>]
    IN  /\ nuclear.pc \in {"idle", "done", "failed"}
        /\ Len(constructions) < MaxConstructions
        /\ calls' = <<>>
        /\ IF scenario \in DOMAIN scenarios
           THEN /\ nuclear' = [n EXCEPT !.pc = "tam", !.self.ac = <<scenarios[scenario]>>,
                                        !.locals.tamconfig = <<tamconfig(scenarios[scenario])>>]
                /\ UNCHANGED constructions
           ELSE Failed(n, "KeyError")
        /\ UNCHANGED <<co2equivs, engines, cache_CO2eq, cache_CO2, built, rebinds, last, scenarios, frames, runs>>

\* lines 212-236
Configure ==
  \E arg \in ScenarioArgs :
    LET scenario == IF arg = "None" THEN default_scenario ELSE arg
        n == [NoNuclear EXCEPT !.scenario = arg, !.self.scenario = <<scenario>>]
    IN  /\ nuclear.pc \in {"idle", "done", "failed"}
        /\ Len(constructions) < MaxConstructions
        /\ calls' = <<>>
        /\ IF scenario \in DOMAIN scenarios
           THEN /\ nuclear' = [n EXCEPT !.pc = "tam", !.self.ac = <<scenarios[scenario]>>,
                                        !.locals.tamconfig = <<tamconfig(scenarios[scenario])>>]
                /\ UNCHANGED constructions
           ELSE Failed(n, "KeyError")
        /\ UNCHANGED <<co2equivs, engines, cache_CO2eq, cache_CO2, built, rebinds, last, scenarios, frames, runs>>

\* lines 237-436
ProjectMarket ==
  \E projection \in TamProjections :
    LET tm == tam_TAM(nuclear.locals.tamconfig[1], tam_ref_data_sources)
    IN  /\ nuclear.pc = "tam"
        /\ calls' = Append(calls, construct("tam.TAM",
                      [tamconfig |-> nuclear.locals.tamconfig[1],
                       tam_ref_data_sources |-> tam_ref_data_sources,
                       tam_pds_data_sources |-> "rrs.tam_pds_data_sources"]))
                    \o (IF tm.outcome = "return"
                        THEN <<invoke("self.tm.ref_tam_per_region"), invoke("self.tm.pds_tam_per_region")>>
                        ELSE <<>>)
        /\ IF tm.outcome = "return"
           THEN /\ nuclear' = [nuclear EXCEPT !.pc = "adoption", !.self.tm = <<tm.value>>,
                                 !.locals.ref_tam_per_region = <<projection.ref>>,
                                 !.locals.pds_tam_per_region = <<projection.pds>>]
                /\ UNCHANGED constructions
           ELSE Failed(nuclear, tm.outcome)
        /\ scenarios' = scenarios
        /\ UNCHANGED <<co2equivs, engines, cache_CO2eq, cache_CO2, built, rebinds, last, frames, runs>>

BuildAdoption_limits_swapped ==
  LET ac == nuclear.self.ac[1]
  IN  /\ nuclear.pc = "adoption"
      /\ nuclear' = [nuclear EXCEPT !.pc = "resolve", !.locals.adconfig = <<adconfig(ac)>>,
                       !.self.ad = <<"adoptiondata.AdoptionData">>,
                       !.self.pds_ca = <<"customadoption.CustomAdoption(ca_pds_data_sources)">>,
                       !.self.ref_ca = <<"customadoption.CustomAdoption(ca_ref_data_sources)">>]
      /\ calls' = calls \o
           <<construct("adoptiondata.AdoptionData",
               [ac |-> ac, data_sources |-> ad_data_sources, adconfig |-> adconfig(ac)]),
             construct("customadoption.CustomAdoption",
               [data_sources |-> "ca_pds_data_sources",
                soln_adoption_custom_name |-> ac.soln_pds_adoption_custom_name,
                high_sd_mult |-> "1.0", low_sd_mult |-> "1.0",
                total_adoption_limit |-> nuclear.locals.ref_tam_per_region[1]]),
             construct("customadoption.CustomAdoption",
               [data_sources |-> "ca_ref_data_sources",
                soln_adoption_custom_name |-> ac.soln_ref_adoption_custom_name,
                high_sd_mult |-> "1.0", low_sd_mult |-> "1.0",
                total_adoption_limit |-> nuclear.locals.pds_tam_per_region[1]])>>
      /\ scenarios' = HandOver
      /\ UNCHANGED <<co2equivs, engines, cache_CO2eq, cache_CO2, built, rebinds, last, constructions, frames, runs>>

\* lines 438-646
BuildAdoption ==
  LET ac == nuclear.self.ac[1]
  IN  /\ nuclear.pc = "adoption"
      /\ nuclear' = [nuclear EXCEPT !.pc = "resolve", !.locals.adconfig = <<adconfig(ac)>>,
                       !.self.ad = <<"adoptiondata.AdoptionData">>,
                       !.self.pds_ca = <<"customadoption.CustomAdoption(ca_pds_data_sources)">>,
                       !.self.ref_ca = <<"customadoption.CustomAdoption(ca_ref_data_sources)">>]
      /\ calls' = calls \o
           <<construct("adoptiondata.AdoptionData",
               [ac |-> ac, data_sources |-> ad_data_sources, adconfig |-> adconfig(ac)]),
             construct("customadoption.CustomAdoption",
               [data_sources |-> "ca_pds_data_sources",
                soln_adoption_custom_name |-> ac.soln_pds_adoption_custom_name,
                high_sd_mult |-> "1.0", low_sd_mult |-> "1.0",
                total_adoption_limit |-> nuclear.locals.pds_tam_per_region[1]]),
             construct("customadoption.CustomAdoption",
               [data_sources |-> "ca_ref_data_sources",
                soln_adoption_custom_name |-> ac.soln_ref_adoption_custom_name,
                high_sd_mult |-> "1.0", low_sd_mult |-> "1.0",
                total_adoption_limit |-> nuclear.locals.ref_tam_per_region[1]])>>
      /\ scenarios' = HandOver
      /\ UNCHANGED <<co2equivs, engines, cache_CO2eq, cache_CO2, built, rebinds, last, constructions, frames, runs>>

ref_adoption_custom_unless_default(ac) ==
  IF ac.soln_ref_adoption_basis # "Default"
  THEN [invoked |-> <<invoke("self.ref_ca.adoption_data_per_region")>>,
        ref_adoption_data_per_region |-> "self.ref_ca.adoption_data_per_region()"]
  ELSE [invoked |-> <<>>, ref_adoption_data_per_region |-> "None"]

\* lines 648-651: the reference pathway
ref_adoption(ac) ==
  IF ac.soln_ref_adoption_basis = "Custom"
  THEN [invoked |-> <<invoke("self.ref_ca.adoption_data_per_region")>>,
        ref_adoption_data_per_region |-> "self.ref_ca.adoption_data_per_region()"]
  ELSE [invoked |-> <<>>, ref_adoption_data_per_region |-> "None"]

\* lines 653-664: the intervention pathway; no branch is taken for a basis
\* other than the two, and the three locals stay unbound
pds_adoption_from_prognostication_always(ac) ==
  LET data == ad_adoption_data_per_region(ac, ad_data_sources)
  IN  [outcome |-> data.outcome,
       invoked |-> <<invoke("self.ad.adoption_data_per_region"),
                     invoke("self.ad.adoption_trend_per_region"),
                     invoke("self.ad.adoption_is_single_source")>>,
       pds_adoption_data_per_region |-> <<data.value>>,
       pds_adoption_trend_per_region |-> <<"self.ad.adoption_trend_per_region()">>,
       pds_adoption_is_single_source |-> <<"self.ad.adoption_is_single_source()">>]

pds_adoption_else_custom(ac) ==
  IF ac.soln_pds_adoption_basis = "Existing Adoption Prognostications"
  THEN pds_adoption_from_prognostication_always(ac)
  ELSE [outcome |-> "return",
        invoked |-> <<invoke("self.pds_ca.adoption_data_per_region"),
                      invoke("self.pds_ca.adoption_trend_per_region")>>,
        pds_adoption_data_per_region |-> <<"self.pds_ca.adoption_data_per_region()">>,
        pds_adoption_trend_per_region |-> <<"self.pds_ca.adoption_trend_per_region()">>,
        pds_adoption_is_single_source |-> <<"None">>]

pds_adoption(ac) ==
  IF ac.soln_pds_adoption_basis = "Fully Customized PDS"
  THEN [outcome |-> "return",
        invoked |-> <<invoke("self.pds_ca.adoption_data_per_region"),
                      invoke("self.pds_ca.adoption_trend_per_region")>>,
        pds_adoption_data_per_region |-> <<"self.pds_ca.adoption_data_per_region()">>,
        pds_adoption_trend_per_region |-> <<"self.pds_ca.adoption_trend_per_region()">>,
        pds_adoption_is_single_source |-> <<"None">>]
  ELSE IF ac.soln_pds_adoption_basis = "Existing Adoption Prognostications"
  THEN LET data == ad_adoption_data_per_region(ac, ad_data_sources)
       IN  IF data.outcome = "return"
           THEN [outcome |-> "return",
                 invoked |-> <<invoke("self.ad.adoption_data_per_region"),
                               invoke("self.ad.adoption_trend_per_region"),
                               invoke("self.ad.adoption_is_single_source")>>,
                 pds_adoption_data_per_region |-> <<data.value>>,
                 pds_adoption_trend_per_region |-> <<"self.ad.adoption_trend_per_region()">>,
                 pds_adoption_is_single_source |-> <<"self.ad.adoption_is_single_source()">>]
           ELSE [outcome |-> data.outcome,
                 invoked |-> <<invoke("self.ad.adoption_data_per_region")>>,
                 pds_adoption_data_per_region |-> <<>>,
                 pds_adoption_trend_per_region |-> <<>>,
                 pds_adoption_is_single_source |-> <<>>]
  ELSE [outcome |-> "return", invoked |-> <<>>,
        pds_adoption_data_per_region |-> <<>>,
        pds_adoption_trend_per_region |-> <<>>,
        pds_adoption_is_single_source |-> <<>>]

ResolveAdoption ==
  LET ac == nuclear.self.ac[1]
      ref == ref_adoption(ac)
      pds == pds_adoption(ac)
      n == [nuclear EXCEPT
              !.locals.ref_adoption_data_per_region = <<ref.ref_adoption_data_per_region>>,
              !.locals.pds_adoption_data_per_region = pds.pds_adoption_data_per_region,
              !.locals.pds_adoption_trend_per_region = pds.pds_adoption_trend_per_region,
              !.locals.pds_adoption_is_single_source = pds.pds_adoption_is_single_source]
  IN  /\ nuclear.pc = "resolve"
      /\ calls' = calls \o ref.invoked \o pds.invoked
      /\ IF pds.outcome = "return"
         THEN /\ nuclear' = [n EXCEPT !.pc = "anchors"]
              /\ UNCHANGED constructions
         ELSE Failed(n, pds.outcome)
      /\ scenarios' = scenarios
      /\ UNCHANGED <<co2equivs, engines, cache_CO2eq, cache_CO2, built, rebinds, last, frames, runs>>

\* lines 666-687: the name of an unbound local raises UnboundLocalError while
\* the arguments of HelperTables are evaluated
InterpolateAnchors ==
  LET ac == nuclear.self.ac[1]
      l == nuclear.locals
      n == [nuclear EXCEPT
              !.locals.ht_ref_datapoints = <<ht_ref_datapoints(l.ref_tam_per_region[1])>>,
              !.locals.ht_pds_datapoints = <<ht_pds_datapoints(ac, l.pds_tam_per_region[1])>>]
  IN  /\ nuclear.pc = "anchors"
      /\ IF l.pds_adoption_data_per_region = <<>>
         THEN /\ Failed(n, "UnboundLocalError")
              /\ UNCHANGED <<calls, scenarios>>
         ELSE /\ nuclear' = [n EXCEPT !.pc = "ef", !.self.ht = <<"helpertables.HelperTables">>]
              /\ calls' = Append(calls, construct("helpertables.HelperTables",
                            [ac |-> ac,
                             ref_datapoints |-> n.locals.ht_ref_datapoints[1],
                             pds_datapoints |-> n.locals.ht_pds_datapoints[1],
                             pds_adoption_data_per_region |-> l.pds_adoption_data_per_region[1],
                             ref_adoption_limits |-> l.ref_tam_per_region[1],
                             pds_adoption_limits |-> l.pds_tam_per_region[1],
                             ref_adoption_data_per_region |-> l.ref_adoption_data_per_region[1],
                             pds_adoption_trend_per_region |-> l.pds_adoption_trend_per_region[1],
                             pds_adoption_is_single_source |-> l.pds_adoption_is_single_source[1]]))
              /\ scenarios' = HandOver
              /\ UNCHANGED constructions
      /\ UNCHANGED <<co2equivs, engines, cache_CO2eq, cache_CO2, built, rebinds, last, frames, runs>>

BuildEngine_version_2 ==
  /\ nuclear.pc = "ef"
  /\ engines' = Append(engines, ElectricityGenOnGrid(nuclear.self.ac[1], 2))
  /\ nuclear' = [nuclear EXCEPT !.pc = "ua", !.self.ef = <<Len(engines) + 1>>]
  /\ calls' = Append(calls, construct("emissionsfactors.ElectricityGenOnGrid",
                                      [ac |-> nuclear.self.ac[1]]))
  /\ UNCHANGED <<co2equivs, cache_CO2eq, cache_CO2, built, rebinds, last, scenarios, constructions, frames, runs>>

\* line 689: grid_emissions_version takes its default, 1
BuildEngine ==
  /\ nuclear.pc = "ef"
  /\ engines' = Append(engines, ElectricityGenOnGrid(nuclear.self.ac[1], 1))
  /\ nuclear' = [nuclear EXCEPT !.pc = "ua", !.self.ef = <<Len(engines) + 1>>]
  /\ calls' = Append(calls, construct("emissionsfactors.ElectricityGenOnGrid",
                                      [ac |-> nuclear.self.ac[1]]))
  /\ UNCHANGED <<co2equivs, cache_CO2eq, cache_CO2, built, rebinds, last, scenarios, constructions, frames, runs>>

\* lines 691-699
DeriveUnits ==
  LET l == nuclear.locals
  IN  /\ nuclear.pc = "ua"
      /\ nuclear' = [nuclear EXCEPT !.pc = "fc", !.self.ua = <<"unitadoption.UnitAdoption">>,
                       !.locals.soln_pds_tot_iunits_reqd = <<"self.ua.soln_pds_tot_iunits_reqd()">>,
                       !.locals.soln_ref_tot_iunits_reqd = <<"self.ua.soln_ref_tot_iunits_reqd()">>,
                       !.locals.conv_ref_tot_iunits = <<"self.ua.conv_ref_tot_iunits()">>,
                       !.locals.soln_net_annual_funits_adopted =
                          <<"self.ua.soln_net_annual_funits_adopted()">>]
      /\ calls' = calls \o
           <<invoke("self.ht.soln_ref_funits_adopted"), invoke("self.ht.soln_pds_funits_adopted"),
             construct("unitadoption.UnitAdoption",
               [ac |-> nuclear.self.ac[1],
                ref_tam_per_region |-> l.ref_tam_per_region[1],
                pds_tam_per_region |-> l.pds_tam_per_region[1],
                soln_ref_funits_adopted |-> "self.ht.soln_ref_funits_adopted()",
                soln_pds_funits_adopted |-> "self.ht.soln_pds_funits_adopted()",
                bug_cfunits_double_count |-> TRUE]),
             invoke("self.ua.soln_pds_tot_iunits_reqd"), invoke("self.ua.soln_ref_tot_iunits_reqd"),
             invoke("self.ua.conv_ref_tot_iunits"), invoke("self.ua.soln_net_annual_funits_adopted")>>
      /\ scenarios' = HandOver
      /\ UNCHANGED <<co2equivs, engines, cache_CO2eq, cache_CO2, built, rebinds, last, constructions, frames, runs>>

\* lines 701-709
DeriveFirstCost ==
  LET l == nuclear.locals
  IN  /\ nuclear.pc = "fc"
      /\ nuclear' = [nuclear EXCEPT !.pc = "oc", !.self.fc = <<"firstcost.FirstCost">>]
      /\ calls' = calls \o
           <<invoke("self.ua.soln_pds_new_iunits_reqd"), invoke("self.ua.soln_ref_new_iunits_reqd"),
             invoke("self.ua.conv_ref_new_iunits"),
             construct("firstcost.FirstCost",
               [ac |-> nuclear.self.ac[1],
                soln_pds_tot_iunits_reqd |-> l.soln_pds_tot_iunits_reqd[1],
                soln_ref_tot_iunits_reqd |-> l.soln_ref_tot_iunits_reqd[1],
                conv_ref_tot_iunits |-> l.conv_ref_tot_iunits[1],
                soln_pds_new_iunits_reqd |-> "self.ua.soln_pds_new_iunits_reqd()",
                soln_ref_new_iunits_reqd |-> "self.ua.soln_ref_new_iunits_reqd()",
                conv_ref_new_iunits |-> "self.ua.conv_ref_new_iunits()"])>>
      /\ scenarios' = HandOver
      /\ UNCHANGED <<co2equivs, engines, cache_CO2eq, cache_CO2, built, rebinds, last, constructions, frames, runs>>

\* lines 711-722
DeriveOperatingCost ==
  LET l == nuclear.locals
  IN  /\ nuclear.pc = "oc"
      /\ nuclear' = [nuclear EXCEPT !.pc = "c4", !.self.oc = <<"operatingcost.OperatingCost">>]
      /\ calls' = calls \o
           <<invoke("self.ua.conv_ref_annual_tot_iunits"),
             invoke("self.fc.soln_pds_annual_world_first_cost"),
             invoke("self.fc.soln_ref_annual_world_first_cost"),
             invoke("self.fc.conv_ref_annual_world_first_cost"),
             invoke("self.fc.soln_pds_install_cost_per_iunit"),
             invoke("self.fc.conv_ref_install_cost_per_iunit"),
             construct("operatingcost.OperatingCost",
               [ac |-> nuclear.self.ac[1],
                soln_net_annual_funits_adopted |-> l.soln_net_annual_funits_adopted[1],
                soln_pds_tot_iunits_reqd |-> l.soln_pds_tot_iunits_reqd[1],
                soln_ref_tot_iunits_reqd |-> l.soln_ref_tot_iunits_reqd[1],
                conv_ref_annual_tot_iunits |-> "self.ua.conv_ref_annual_tot_iunits()",
                soln_pds_annual_world_first_cost |-> "self.fc.soln_pds_annual_world_first_cost()",
                soln_ref_annual_world_first_cost |-> "self.fc.soln_ref_annual_world_first_cost()",
                conv_ref_annual_world_first_cost |-> "self.fc.conv_ref_annual_world_first_cost()",
                soln_pds_install_cost_per_iunit |-> "self.fc.soln_pds_install_cost_per_iunit()",
                conv_ref_install_cost_per_iunit |-> "self.fc.conv_ref_install_cost_per_iunit()"])>>
      /\ scenarios' = HandOver
      /\ UNCHANGED <<co2equivs, engines, cache_CO2eq, cache_CO2, built, rebinds, last, constructions, frames, runs>>

\* lines 724-725
DeriveCH4_then_units_again ==
  /\ nuclear.pc = "c4"
  /\ nuclear' = [nuclear EXCEPT !.pc = "ua", !.self.c4 = <<"ch4calcs.CH4Calcs">>]
  /\ calls' = Append(calls, construct("ch4calcs.CH4Calcs",
                  [ac |-> nuclear.self.ac[1],
                   soln_net_annual_funits_adopted |-> nuclear.locals.soln_net_annual_funits_adopted[1]]))
  /\ scenarios' = HandOver
  /\ UNCHANGED <<co2equivs, engines, cache_CO2eq, cache_CO2, built, rebinds, last, constructions, frames, runs>>

DeriveCH4 ==
  /\ nuclear.pc = "c4"
  /\ nuclear' = [nuclear EXCEPT !.pc = "c2", !.self.c4 = <<"ch4calcs.CH4Calcs">>]
  /\ calls' = Append(calls, construct("ch4calcs.CH4Calcs",
                  [ac |-> nuclear.self.ac[1],
                   soln_net_annual_funits_adopted |-> nuclear.locals.soln_net_annual_funits_adopted[1]]))
  /\ scenarios' = HandOver
  /\ UNCHANGED <<co2equivs, engines, cache_CO2eq, cache_CO2, built, rebinds, last, constructions, frames, runs>>

\* lines 727-740: the two grid tables are asked of self.ef, through its caches,
\* the CO2 table first
DeriveCO2 ==
  LET e == nuclear.self.ef[1]
      co2 == lru_call(cache_CO2, e, conv_ref_grid_CO2_per_KWh(engines[e]))
      co2eq == lru_call(cache_CO2eq, e, conv_ref_grid_CO2eq_per_KWh(engines[e]))
      before == <<invoke("self.c4.ch4_ppb_calculator"),
                  invoke("self.ua.soln_pds_net_grid_electricity_units_saved"),
                  invoke("self.ua.soln_pds_net_grid_electricity_units_used"),
                  invoke("self.ua.soln_pds_direct_co2_emissions_saved"),
                  invoke("self.ua.soln_pds_direct_ch4_co2_emissions_saved"),
                  invoke("self.ua.soln_pds_direct_n2o_co2_emissions_saved"),
                  invoke("self.ua.soln_pds_new_iunits_reqd"),
                  invoke("self.ua.soln_ref_new_iunits_reqd"),
                  invoke("self.ua.conv_ref_new_iunits"),
                  invoke("self.ef.conv_ref_grid_CO2_per_KWh")>>
  IN  /\ nuclear.pc = "c2"
      /\ cache_CO2' = co2.cache
      /\ IF co2.r.outcome # "return"
         THEN /\ Failed(nuclear, co2.r.outcome)
              /\ calls' = calls \o before
              /\ UNCHANGED cache_CO2eq
         ELSE IF co2eq.r.outcome # "return"
         THEN /\ Failed(nuclear, co2eq.r.outcome)
              /\ calls' = calls \o before \o <<invoke("self.ef.conv_ref_grid_CO2eq_per_KWh")>>
              /\ UNCHANGED cache_CO2eq
         ELSE /\ nuclear' = [nuclear EXCEPT !.pc = "r2s", !.self.c2 = <<"co2calcs.CO2Calcs">>]
              /\ cache_CO2eq' = co2eq.cache
              /\ calls' = calls \o before \o
                   <<invoke("self.ef.conv_ref_grid_CO2eq_per_KWh"),
                     construct("co2calcs.CO2Calcs",
                       [ac |-> nuclear.self.ac[1],
                        conv_ref_grid_CO2_per_KWh |-> co2.r.value,
                        conv_ref_grid_CO2eq_per_KWh |-> co2eq.r.value,
                        soln_net_annual_funits_adopted |->
                          nuclear.locals.soln_net_annual_funits_adopted[1],
                        fuel_in_liters |-> FALSE])>>
              /\ UNCHANGED constructions
      /\ scenarios' = HandOver
      /\ UNCHANGED <<co2equivs, engines, built, rebinds, last, frames, runs>>

\* the last stage built again and again, the object never returned
BuildRRS_retries ==
  /\ nuclear.pc = "r2s"
  /\ nuclear' = [nuclear EXCEPT !.self.r2s = <<"rrs.RRS">>]
  /\ UNCHANGED <<calls, co2equivs, engines, cache_CO2eq, cache_CO2, built, rebinds, last, scenarios,
                 constructions, frames, runs>>

\* lines 742-744, and the return of the constructed object
BuildRRS ==
  LET ac == nuclear.self.ac[1]
      self == [nuclear.self EXCEPT !.r2s = <<"rrs.RRS">>]
  IN  /\ nuclear.pc = "r2s"
      /\ nuclear' = [nuclear EXCEPT !.pc = "done", !.self = self, !.outcome = "return",
                                    !.object = <<self>>]
      /\ calls' = Append(calls, construct("rrs.RRS",
                      [total_energy_demand |-> nuclear.locals.ref_tam_per_region[1][2014]["World"],
                       soln_avg_annual_use |-> ac.soln_avg_annual_use,
                       conv_avg_annual_use |-> ac.conv_avg_annual_use]))
      /\ constructions' = Append(constructions,
                                 [scenario |-> nuclear.self.scenario[1], outcome |-> "return"])
      /\ UNCHANGED <<co2equivs, engines, cache_CO2eq, cache_CO2, built, rebinds, last, scenarios, frames, runs>>

NextPipeline ==
  \/ Configure
  \/ ProjectMarket
  \/ BuildAdoption
  \/ ResolveAdoption
  \/ InterpolateAnchors
  \/ BuildEngine
  \/ DeriveUnits
  \/ DeriveFirstCost
  \/ DeriveOperatingCost
  \/ DeriveCH4
  \/ DeriveCO2
  \/ BuildRRS

\* the engine of a scenario, of either grid source; no factors record yet
InitFactors ==
  /\ co2equivs = <<>>
  /\ engines \in {<<ElectricityGenOnGrid(ac, 1)>> : ac \in ScenarioControls}
  /\ cache_CO2eq = <<>>
  /\ cache_CO2 = <<>>
  /\ built = {}
  /\ rebinds = 0
  /\ last = NoCall
  /\ scenarios = defined_scenarios
  /\ nuclear = NoNuclear
  /\ calls = <<>>
  /\ constructions = <<>>
  /\ frames = NoFrames
  /\ runs = NoRuns

\* one engine, of either grid source and dataset version; no run has begun
InitConcurrent ==
  /\ co2equivs = <<>>
  /\ engines \in {<<ElectricityGenOnGrid(ac, grid_emissions_version)>> :
                    ac \in ScenarioControls, grid_emissions_version \in ScenarioVersions}
  /\ cache_CO2eq = <<>>
  /\ cache_CO2 = <<>>
  /\ built = {}
  /\ rebinds = 0
  /\ last = NoCall
  /\ scenarios = defined_scenarios
  /\ nuclear = NoNuclear
  /\ calls = <<>>
  /\ constructions = <<>>
  /\ frames = NoFrames
  /\ runs = NoRuns

\* a run is handed an engine that exists; the runs begin in the order of
\* their numbers
ShareEngine ==
  \E r \in 1..MaxRuns, e \in 1..Len(engines) :
    /\ runs[r].pc = "idle"
    /\ \A q \in 1..(r - 1) : runs[q].pc # "idle"
    /\ runs' = [runs EXCEPT ![r] = [@ EXCEPT !.pc = "call", !.ef = e,
                                               !.builder = "conv_ref_grid_CO2_per_KWh"]]
    /\ UNCHANGED <<co2equivs, engines, cache_CO2eq, cache_CO2, built, rebinds, last,
                   scenarios, nuclear, calls, constructions, frames>>

\* the wrapper of lru_cache looks the engine up: a hit returns the stored
\* frame, a miss enters the body
LookUp ==
  \E r \in 1..MaxRuns :
    LET run == runs[r]
        co2 == run.builder = "conv_ref_grid_CO2_per_KWh"
        cache == IF co2 THEN cache_CO2 ELSE cache_CO2eq
        hit == cache_has(cache, run.ef)
        ref == cache_get(cache, run.ef)
    IN  /\ run.pc = "call"
        /\ IF hit
           THEN /\ runs' = [runs EXCEPT ![r] =
                             after_builder(run, [builder |-> run.builder, ref |-> ref,
                                                 table |-> frames[ref][1]])]
                /\ cache_CO2' = IF co2 THEN cache_touch(cache, run.ef) ELSE cache_CO2
                /\ cache_CO2eq' = IF co2 THEN cache_CO2eq ELSE cache_touch(cache, run.ef)
           ELSE /\ runs' = [runs EXCEPT ![r] = [run EXCEPT !.pc = "frame"]]
                /\ UNCHANGED <<cache_CO2, cache_CO2eq>>
        /\ UNCHANGED <<co2equivs, engines, built, rebinds, last,
                       scenarios, nuclear, calls, constructions, frames>>

\* lines 106-110, 148-152
NewFrame ==
  \E r \in 1..MaxRuns :
    LET made == new_frame(frames, <<r, runs[r].builder>>)
    IN  /\ runs[r].pc = "frame"
        /\ frames' = made.heap
        /\ runs' = [runs EXCEPT ![r] =
                      [@ EXCEPT !.result = <<made.ref>>,
                                !.pc = IF runs[r].builder = "conv_ref_grid_CO2_per_KWh"
                                       THEN "regions" ELSE "world"]]
        /\ UNCHANGED <<co2equivs, engines, cache_CO2eq, cache_CO2, built, rebinds, last,
                       scenarios, nuclear, calls, constructions>>

\* lines 111-125
FillWorld ==
  \E r \in 1..MaxRuns :
    LET run == runs[r]
        world == world_column(engines[run.ef], frames[run.result[1]][1])
    IN  /\ run.pc = "world"
        /\ IF world.outcome = "return"
           THEN /\ frames' = [frames EXCEPT ![run.result[1]] = <<world.value>>]
                /\ runs' = [runs EXCEPT ![r] = [run EXCEPT !.pc = "regions"]]
           ELSE /\ runs' = [runs EXCEPT ![r] = [run EXCEPT !.pc = "failed"]]
                /\ UNCHANGED frames
        /\ UNCHANGED <<co2equivs, engines, cache_CO2eq, cache_CO2, built, rebinds, last,
                       scenarios, nuclear, calls, constructions>>

\* lines 130-138, 153-162
FillRegions ==
  \E r \in 1..MaxRuns :
    LET run == runs[r]
    IN  /\ run.pc = "regions"
        /\ frames' = [frames EXCEPT ![run.result[1]] =
                        IF run.builder = "conv_ref_grid_CO2_per_KWh"
                        THEN <<conv_ref_grid_CO2_per_KWh(engines[run.ef]).value>>
                        ELSE <<fill_regions_CO2eq(@[1])>>]
        /\ runs' = [runs EXCEPT ![r] = [run EXCEPT !.pc = "return"]]
        /\ UNCHANGED <<co2equivs, engines, cache_CO2eq, cache_CO2, built, rebinds, last,
                       scenarios, nuclear, calls, constructions>>

\* lines 139, 163: the body returns its frame through the wrapper
ReturnTable ==
  \E r \in 1..MaxRuns :
    LET run == runs[r]
        co2 == run.builder = "conv_ref_grid_CO2_per_KWh"
    IN  /\ run.pc = "return"
        /\ cache_CO2' = IF co2 THEN cache_store(cache_CO2, run.ef, run.result[1]) ELSE cache_CO2
        /\ cache_CO2eq' = IF co2 THEN cache_CO2eq ELSE cache_store(cache_CO2eq, run.ef, run.result[1])
        /\ runs' = [runs EXCEPT ![r] =
                      after_builder(run, [builder |-> run.builder, ref |-> run.result[1],
                                          table |-> frames[run.result[1]][1]])]
        /\ UNCHANGED <<co2equivs, engines, built, rebinds, last,
                       scenarios, nuclear, calls, constructions, frames>>

\* lines 727-740: CO2Calcs is given the two tables
Consume ==
  \E r \in 1..MaxRuns :
    LET run == runs[r]
        tables == <<run.got[1].ref, run.got[2].ref>>
    IN  /\ run.pc = "consume"
        /\ frames' = co2calcs_CO2Calcs(frames, tables)
        /\ runs' = [runs EXCEPT ![r] =
                      [run EXCEPT !.pc = "done",
                                  !.seen = <<frames'[tables[1]][1], frames'[tables[2]][1]>>]]
        /\ UNCHANGED <<co2equivs, engines, cache_CO2eq, cache_CO2, built, rebinds, last,
                       scenarios, nuclear, calls, constructions>>

NextConcurrent ==
  \/ ShareEngine
  \/ LookUp
  \/ NewFrame
  \/ FillWorld
  \/ FillRegions
  \/ ReturnTable
  \/ Consume

\* the statements of __init__ after the first: once begun, a construction
\* runs on, every collaborator call returning or raising
RunOn ==
  \/ ProjectMarket
  \/ BuildAdoption
  \/ ResolveAdoption
  \/ InterpolateAnchors
  \/ BuildEngine
  \/ DeriveUnits
  \/ DeriveFirstCost
  \/ DeriveOperatingCost
  \/ DeriveCH4
  \/ DeriveCO2
  \/ BuildRRS

NextParse == ParseConversionSource \/ ParseGridSource \/ ParseGridRange

NextTable == Call_conv_ref_grid_CO2eq_per_KWh \/ Call_conv_ref_grid_CO2_per_KWh

NextGrid == NewEngine \/ Call_conv_ref_grid_CO2eq_per_KWh

Next == NextParse \/ NewCO2Equiv \/ NextGrid \/ NextTable \/ NextPipeline \/ NextConcurrent

Spec == Init /\ [][Next]_vars

\* the free-text parsers, applied to every text of Texts
SpecParse == Init /\ [][NextParse]_vars

\* the CO2-equivalence multipliers
SpecCO2Equiv == Init /\ [][NewCO2Equiv]_vars

\* the two table builders on one engine of any configuration
SpecTable == InitTable /\ [][NextTable]_vars

\* memoization of the CO2-eq table across engines that are constructed and
\* called, never modified
SpecGrid == Init /\ [][NextGrid]_vars

\* the same, with engines whose attributes a caller rebinds between calls
SpecGridRebind == Init /\ [][NextGrid \/ SetAttributes]_vars

\* constructions of Nuclear, one after the other, each run to its end
SpecPipeline == InitPipeline /\ [][NextPipeline]_vars

\* constructions over the registry of the source, each run to its end: a
\* statement that can run does run
SpecPipelineLive == Init /\ [][NextPipeline]_vars /\ WF_vars(RunOn)

\* factors records resolved while the builders of an engine are called
SpecFactors == InitFactors /\ [][NewCO2Equiv \/ NextTable]_vars

\* runs that share an engine, their steps interleaved
SpecConcurrent == InitConcurrent /\ [][NextConcurrent]_vars

-----------------------------------------------------------------------------
(* Properties of the enumerations and the CO2-equivalence multipliers *)

ParserOps ==
  {"string_to_conversion_source", "string_to_emissions_grid_source",
   "string_to_emissions_grid_range"}

AcceptedBy(op) ==
  IF op = "string_to_conversion_source" THEN AcceptedConversionSource
  ELSE IF op = "string_to_emissions_grid_source" THEN AcceptedGridSource
  ELSE AcceptedGridRange

MembersOf(op) ==
  IF op = "string_to_conversion_source" THEN CO2EQ_SOURCE
  ELSE IF op = "string_to_emissions_grid_source" THEN GRID_SOURCE
  ELSE GRID_RANGE

\* two characters that are one letter in either case; the kelvin sign is an
\* upper-case letter whose lower case is k
same_letter(c, d) ==
  \/ c = d
  \/ \E k \in 1..26 : {c, d} = {UpperLetters[k], LowerLetters[k]}
  \/ {c, d} \in {{"KELVIN", "k"}, {"KELVIN", "K"}}

\* text and accepted differ in letter case only
case_variant(text, accepted) ==
  /\ Len(text) = Len(accepted)
  /\ \A i \in 1..Len(text) : same_letter(text[i], accepted[i])

recognized(op, text) == \E accepted \in AcceptedBy(op) : case_variant(text, accepted)

\* the outcome of the parser op on text
parse(op, text) ==
  IF op = "string_to_conversion_source" THEN string_to_conversion_source(text)
  ELSE IF op = "string_to_emissions_grid_source" THEN string_to_emissions_grid_source(text)
  ELSE string_to_emissions_grid_range(text)

\* C1: constructing CO2Equiv with a member of CO2EQ_SOURCE succeeds and gives
\* CH4=34, N2O=298 for AR5_WITH_FEEDBACK, CH4=25, N2O=298 for AR4 and CH4=21,
\* N2O=310 for SAR; every object constructed carries the multipliers of its
\* conversion source.
C1_Multipliers ==
  /\ (last.op = "CO2Equiv" /\ last.arg \in CO2EQ_SOURCE) =>
       /\ last.outcome = "return"
       /\ Len(last.object) = 1
       /\ last.object[1].conversion_source = last.arg
       /\ last.arg = "CO2EQ_SOURCE.AR5_WITH_FEEDBACK" =>
            last.object[1].CH4multiplier = 34 /\ last.object[1].N2Omultiplier = 298
       /\ last.arg = "CO2EQ_SOURCE.AR4" =>
            last.object[1].CH4multiplier = 25 /\ last.object[1].N2Omultiplier = 298
       /\ last.arg = "CO2EQ_SOURCE.SAR" =>
            last.object[1].CH4multiplier = 21 /\ last.object[1].N2Omultiplier = 310
  /\ \A i \in 1..Len(co2equivs) :
       <<co2equivs[i].conversion_source, co2equivs[i].CH4multiplier, co2equivs[i].N2Omultiplier>>
         \in {<<"CO2EQ_SOURCE.AR5_WITH_FEEDBACK", 34, 298>>,
              <<"CO2EQ_SOURCE.AR4", 25, 298>>,
              <<"CO2EQ_SOURCE.SAR", 21, 310>>}

C1_Witness ==
  /\ last.op = "CO2Equiv" /\ last.arg = "CO2EQ_SOURCE.AR4" /\ last.outcome = "return"
  /\ last.object[1].CH4multiplier = 25
  /\ \E i \in 1..Len(co2equivs) : co2equivs[i].conversion_source = "CO2EQ_SOURCE.SAR"

\* C2: a parser call on a text that is none of its accepted strings, in any
\* letter case, raises ValueError and yields no member; every parser call
\* either returns a member of its own enumeration or raises ValueError.
C2_UnrecognizedFails ==
  last.op \in ParserOps =>
    /\ ~recognized(last.op, last.text) => last.outcome = "ValueError"
    /\ last.outcome \in {"return", "ValueError"}
    /\ last.outcome = "return" => last.member \in MembersOf(last.op)
    /\ last.outcome = "ValueError" => last.member = "None"

C2_Witness ==
  /\ last.op = "string_to_conversion_source"
  /\ last.text = txt_AR6
  /\ last.outcome = "ValueError"
  /\ last.member = "None"

\* C3: the accepted strings of the specification give the members it names:
\* synonyms give the identical member.
C3_Synonyms ==
  /\ last.op = "string_to_conversion_source" =>
       /\ last.text \in {txt_ar5_with_feedback, txt_ar5_us_with_us_feedback} =>
            last.outcome = "return" /\ last.member = "CO2EQ_SOURCE.AR5_WITH_FEEDBACK"
       /\ last.text = txt_ar4 => last.outcome = "return" /\ last.member = "CO2EQ_SOURCE.AR4"
       /\ last.text = txt_sar => last.outcome = "return" /\ last.member = "CO2EQ_SOURCE.SAR"
  /\ last.op = "string_to_emissions_grid_source" =>
       /\ last.text \in {txt_meta_dash_analysis, txt_meta_us_analysis, txt_meta_analysis} =>
            last.outcome = "return" /\ last.member = "GRID_SOURCE.META"
       /\ last.text \in {txt_ipcc_only, txt_ipcc_us_only} =>
            last.outcome = "return" /\ last.member = "GRID_SOURCE.IPCC"
  /\ last.op = "string_to_emissions_grid_range" =>
       /\ last.text \in {txt_mean, txt_median} =>
            last.outcome = "return" /\ last.member = "GRID_RANGE.MEAN"
       /\ last.text = txt_high => last.outcome = "return" /\ last.member = "GRID_RANGE.HIGH"
       /\ last.text = txt_low => last.outcome = "return" /\ last.member = "GRID_RANGE.LOW"

C3_Witness ==
  /\ last.op = "string_to_emissions_grid_range"
  /\ last.text = txt_median
  /\ last.member = "GRID_RANGE.MEAN"

\* the parser op has the same outcome on text as it had on last.text
same_outcome(op, text) ==
  /\ parse(op, text).outcome = last.outcome
  /\ parse(op, text).value = last.member

\* C4 as stated: for every text, parsing it, parsing its lower-cased form and
\* parsing its upper-cased form have the same outcome, and a text that is no
\* letter-case variant of an accepted string fails.
C4_AnyCase ==
  last.op \in ParserOps =>
    /\ same_outcome(last.op, lowercased(last.text))
    /\ same_outcome(last.op, uppercased(last.text))
    /\ ~recognized(last.op, last.text) => last.outcome = "ValueError"

\* upper-casing a character and then lower-casing it gives its lower case;
\* true of every ASCII character, false of U+017F whose upper case is S
folds(text) ==
  \A i \in 1..Len(text) : lowercased(uppercased(<<text[i]>>)) = lowercased(<<text[i]>>)

\* C4 amended: parsing a text and parsing its lower-cased form have the same
\* outcome; so has parsing its upper-cased form when every character of the
\* text lower-cases to the same character before and after upper-casing; a
\* text that is no letter-case variant of an accepted string fails.
C4_CaseInsensitive ==
  last.op \in ParserOps =>
    /\ same_outcome(last.op, lowercased(last.text))
    /\ folds(last.text) => same_outcome(last.op, uppercased(last.text))
    /\ ~recognized(last.op, last.text) => last.outcome = "ValueError"

C4_Witness ==
  /\ last.op = "string_to_emissions_grid_source"
  /\ last.text = uppercased(txt_meta_dash_analysis)
  /\ last.text # lowercased(last.text)
  /\ last.member = "GRID_SOURCE.META"
  /\ parse(last.op, <<" ">> \o last.text).outcome = "ValueError"

\* C5: constructing CO2Equiv without a conversion source gives the object
\* that AR5_WITH_FEEDBACK gives: CH4=34, N2O=298.
C5_Default ==
  (last.op = "CO2Equiv" /\ last.arg = "None") =>
    /\ last.outcome = "return"
    /\ last.object =
         <<[conversion_source |-> "CO2EQ_SOURCE.AR5_WITH_FEEDBACK",
            CH4multiplier |-> 34, N2Omultiplier |-> 298]>>
    /\ last.object = <<CO2Equiv("CO2EQ_SOURCE.AR5_WITH_FEEDBACK").value>>

C5_Witness ==
  /\ last.op = "CO2Equiv" /\ last.arg = "None" /\ last.outcome = "return"
  /\ last.object[1].CH4multiplier = 34

-----------------------------------------------------------------------------
(* Properties of the grid tables *)

\* the attributes of the engine of the latest builder call, at the call
last_source == last.self[1].ac.emissions_grid_source
last_range == last.self[1].ac.emissions_grid_range
last_version == last.self[1].grid_emissions_version

\* the embedded dataset the specification selects for a source and a version
selected_dataset(grid_source, version) ==
  IF grid_source = "GRID_SOURCE.IPCC" THEN world_ipcc
  ELSE IF version = 1 THEN world_meta_1
  ELSE world_meta_2

\* the dataset column the specification selects for a grid range
selected_column(grid_range) ==
  IF grid_range = "GRID_RANGE.MEAN" THEN "medium"
  ELSE IF grid_range = "GRID_RANGE.HIGH" THEN "high"
  ELSE "low"

\* the value a dataset holds for a year, found by the Year of the row
value_for_year(dataset, column, year) ==
  dataset[CHOOSE i \in 1..Len(dataset) : dataset[i].Year = year][column]

\* C6: a CO2-eq table built for a grid source, a grid range of MEAN, HIGH or
\* LOW and a dataset that exists (IPCC; META version 1 or 2) holds in its
\* World column, for every year 2015..2060, the value of that year in the
\* medium, high or low column of the selected dataset.
C6_WorldColumn ==
  ( /\ last.op = "conv_ref_grid_CO2eq_per_KWh"
    /\ last_source \in GRID_SOURCE
    /\ last_range \in GRID_RANGE
    /\ last_source = "GRID_SOURCE.IPCC" \/ last_version \in {1, 2} ) =>
    /\ last.outcome = "return"
    /\ \A year \in Years :
         /\ Cardinality({i \in 1..Len(selected_dataset(last_source, last_version)) :
                           selected_dataset(last_source, last_version)[i].Year = year}) = 1
         /\ last.table[1]["World"][year] =
              value_for_year(selected_dataset(last_source, last_version),
                             selected_column(last_range), year)
    /\ (last_source = "GRID_SOURCE.IPCC" /\ last_range = "GRID_RANGE.MEAN") =>
         /\ last.table[1]["World"][2015] = <<484233480, 0>>
         /\ last.table[1]["World"][2060] = <<462020537, 0>>
    /\ (last_source = "GRID_SOURCE.META" /\ last_range = "GRID_RANGE.HIGH" /\ last_version = 1) =>
         last.table[1]["World"][2015] = <<726805942, 0>>

C6_Witness ==
  /\ last.op = "conv_ref_grid_CO2eq_per_KWh"
  /\ last.outcome = "return"
  /\ last_source = "GRID_SOURCE.META" /\ last_range = "GRID_RANGE.HIGH" /\ last_version = 1
  /\ last.table[1]["World"][2015] = <<726805942, 0>>
  /\ last.table[1]["World"][2060] = <<702254712, 0>>

\* the constants of Generation mixes from the AMPERE/MESSAGE WG3 BAU scenario
region_CO2eq ==
  [region \in Columns \ {"World"} |->
     CASE region = "OECD90" -> <<454068989, 0>>
       [] region = "Eastern Europe" -> <<724747956, 0>>
       [] region = "Asia (Sans Japan)" -> <<457658947, 0>>
       [] region = "Middle East and Africa" -> <<282243907, 0>>
       [] region = "Latin America" -> <<564394712, 0>>
       [] region = "China" -> <<535962403, 0>>
       [] region = "India" -> <<787832379, 0>>
       [] region = "EU" -> <<360629290, 0>>
       [] region = "USA" -> <<665071666, 0>>]

\* C7: in every CO2-eq table returned, each of the nine columns other than
\* World holds one constant in every year 2015..2060, the same constant
\* whatever the grid source, the grid range and the version.
C7_RegionConstants ==
  (last.op = "conv_ref_grid_CO2eq_per_KWh" /\ last.outcome = "return") =>
    \A region \in Columns \ {"World"} :
      /\ last.table[1][region][2015] = last.table[1][region][2060]
      /\ \A year \in Years : last.table[1][region][year] = region_CO2eq[region]

C7_Witness ==
  /\ last.op = "conv_ref_grid_CO2eq_per_KWh"
  /\ last.outcome = "return"
  /\ last_source = "GRID_SOURCE.IPCC" /\ last_range = "GRID_RANGE.LOW" /\ last_version = 2
  /\ last.table[1]["USA"][2015] = <<665071666, 0>>
  /\ last.table[1]["USA"][2060] = <<665071666, 0>>
  /\ last.table[1]["World"][2015] # last.table[1]["World"][2060]

\* direct emission factors, "Emissions Factors"!A66:K112
region_CO2 ==
  [region \in Columns |->
     CASE region = "World" -> <<484512031, 78339>>
       [] region = "OECD90" -> <<392126590, 13504>>
       [] region = "Eastern Europe" -> <<659977316, 856384>>
       [] region = "Asia (Sans Japan)" -> <<385555833, 578110>>
       [] region = "Middle East and Africa" -> <<185499981, 45723>>
       [] region = "Latin America" -> <<491537630, 558014>>
       [] region = "China" -> <<474730312, 824249>>
       [] region = "India" -> <<725081980, 228424>>
       [] region = "EU" -> <<297016531, 229019>>
       [] region = "USA" -> <<594563066, 959381>>]

\* C8: the CO2-only builder returns a table for every engine, whatever its
\* grid source, grid range and version, and the table holds in every year
\* 2015..2060 the reference scalar of the region, World included.
C8_CO2Constant ==
  last.op = "conv_ref_grid_CO2_per_KWh" =>
    /\ last.outcome = "return"
    /\ \A region \in Columns, year \in Years :
         last.table[1][region][year] = region_CO2[region]

C8_Witness ==
  /\ last.op = "conv_ref_grid_CO2_per_KWh"
  /\ last.outcome = "return"
  /\ last_source = "GRID_SOURCE.META" /\ last_range = "None" /\ last_version = 3
  /\ last.table[1]["World"][2015] = <<484512031, 78339>>
  /\ last.table[1]["USA"][2060] = <<594563066, 959381>>

\* two entries of the history made with the same arguments
same_arguments(b1, b2) ==
  /\ b1.grid_source = b2.grid_source
  /\ b1.grid_range = b2.grid_range
  /\ b1.version = b2.version

\* C9: any two CO2-eq builder calls made with the same grid source, grid
\* range and version return equal tables, whatever calls lie between them.
C9_Idempotent ==
  \A b1, b2 \in built : same_arguments(b1, b2) => b1.table = b2.table

C9_Witness ==
  /\ last.op = "conv_ref_grid_CO2eq_per_KWh"
  /\ last.hit
  /\ \E b1, b2 \in built :
       /\ b1.again
       /\ b1.table = last.table[1]
       /\ b2.table # b1.table
  /\ Len(cache_CO2eq) = 2
  /\ cache_CO2eq[1].key # last.engine

\* C10: the CO2-eq table a builder call returns is the one its body computes
\* from the grid source, the grid range and the version the engine has at
\* the call.
C10_KeyedByArguments ==
  (last.op = "conv_ref_grid_CO2eq_per_KWh" /\ last.outcome = "return") =>
    /\ last.table[1] = conv_ref_grid_CO2eq_per_KWh(last.self[1]).value
    /\ \A year \in Years :
         last.table[1]["World"][year] =
           value_for_year(selected_dataset(last_source, last_version),
                          selected_column(last_range), year)

\* C11: every table a builder returns, CO2-eq or CO2-only, has the ten
\* region columns in the order of the source and the 46 year rows 2015..2060,
\* and holds a value in every cell.
C11_FullyPopulated ==
  ( /\ last.op \in {"conv_ref_grid_CO2eq_per_KWh", "conv_ref_grid_CO2_per_KWh"}
    /\ last.outcome = "return" ) =>
    /\ Len(last.table) = 1
    /\ REGIONS = <<"World", "OECD90", "Eastern Europe", "Asia (Sans Japan)",
                   "Middle East and Africa", "Latin America", "China", "India", "EU", "USA">>
    /\ DOMAIN last.table[1] = {REGIONS[i] : i \in 1..10}
    /\ Cardinality(DOMAIN last.table[1]) = 10
    /\ \A region \in DOMAIN last.table[1] :
         /\ DOMAIN last.table[1][region] = 2015..2060
         /\ Cardinality(DOMAIN last.table[1][region]) = 46
         /\ \A year \in 2015..2060 : last.table[1][region][year] # NaN

C11_Witness ==
  /\ last.op = "conv_ref_grid_CO2eq_per_KWh"
  /\ last.outcome = "return"
  /\ last_source = "GRID_SOURCE.META" /\ last_range = "GRID_RANGE.LOW" /\ last_version = 2
  /\ last.table[1]["USA"][2060] # NaN
  /\ last.table[1]["World"][2015] # NaN
  /\ Len(cache_CO2) = 1

\* C12: with grid source IPCC and a grid range of MEAN, HIGH or LOW the
\* CO2-eq builder returns, for every version, the table made from the one
\* IPCC dataset: the table it returns for version 1.
C12_IPCCIgnoresVersion ==
  ( /\ last.op = "conv_ref_grid_CO2eq_per_KWh"
    /\ last_source = "GRID_SOURCE.IPCC"
    /\ last_range \in GRID_RANGE ) =>
    /\ last.outcome = "return"
    /\ \A year \in Years :
         last.table[1]["World"][year] =
           value_for_year(world_ipcc, selected_column(last_range), year)
    /\ \A region \in Columns \ {"World"}, year \in Years :
         last.table[1][region][year] = region_CO2eq[region]
    /\ last_range = "GRID_RANGE.MEAN" => last.table[1]["World"][2015] = <<484233480, 0>>
    /\ last_range = "GRID_RANGE.HIGH" => last.table[1]["World"][2015] = <<954301231, 0>>
    /\ last_range = "GRID_RANGE.LOW" => last.table[1]["World"][2015] = <<415714612, 0>>

C12_Witness ==
  /\ last.op = "conv_ref_grid_CO2eq_per_KWh"
  /\ last.outcome = "return"
  /\ last_source = "GRID_SOURCE.IPCC" /\ last_range = "GRID_RANGE.HIGH" /\ last_version = 3
  /\ last.table[1]["World"][2015] = <<954301231, 0>>

\* C13: with a grid range that is none of MEAN, HIGH, LOW the CO2-eq builder
\* raises ValueError for every grid source and version; it returns no table
\* and stores none.
C13_InvalidRangeFails ==
  (last.op = "conv_ref_grid_CO2eq_per_KWh" /\ last_range \notin GRID_RANGE) =>
    /\ last.outcome = "ValueError"
    /\ last.table = <<>>
    /\ ~cache_has(cache_CO2eq, last.engine)

C13_Witness ==
  /\ last.op = "conv_ref_grid_CO2eq_per_KWh"
  /\ last_range = "None"
  /\ last_source = "None" /\ last_version = 3
  /\ last.outcome = "ValueError"
  /\ cache_CO2eq = <<>>

-----------------------------------------------------------------------------
(* Properties of the constructor of Nuclear *)

\* the configuration the construction is bound to, once line 217 has run
bound == nuclear.self.ac # <<>>
ac_bound == nuclear.self.ac[1]

Invoked(callee) == \E i \in 1..Len(calls) : calls[i].callee = callee
Times(callee) == Cardinality({i \in 1..Len(calls) : calls[i].callee = callee})
CallsTo(callee) == {calls[i].kwargs : i \in {j \in 1..Len(calls) : calls[j].callee = callee}}

AdAdoptionMethods ==
  {"self.ad.adoption_data_per_region", "self.ad.adoption_trend_per_region",
   "self.ad.adoption_is_single_source"}
PdsCaAdoptionMethods ==
  {"self.pds_ca.adoption_data_per_region", "self.pds_ca.adoption_trend_per_region"}

\* the three locals of the intervention pathway are bound
resolved == nuclear.locals.pds_adoption_data_per_region # <<>>

\* C14: the adoption source of the intervention pathway follows
\* soln_pds_adoption_basis.  For 'Fully Customized PDS' the adoption table and
\* the trend table are those of self.pds_ca, no adoption method of self.ad is
\* called and the is-single-source flag is None; for 'Existing Adoption
\* Prognostications' all three are those of self.ad and no adoption method of
\* self.pds_ca is called.  HelperTables receives exactly these three.
C14_AdoptionSourceByBasis ==
  bound =>
    /\ ac_bound.soln_pds_adoption_basis = "Fully Customized PDS" =>
         /\ \A m \in AdAdoptionMethods : ~Invoked(m)
         /\ nuclear.pc \in {"anchors", "ef", "ua", "fc", "oc", "c4", "c2", "r2s", "done"} =>
              /\ nuclear.locals.pds_adoption_data_per_region = <<"self.pds_ca.adoption_data_per_region()">>
              /\ nuclear.locals.pds_adoption_trend_per_region = <<"self.pds_ca.adoption_trend_per_region()">>
              /\ nuclear.locals.pds_adoption_is_single_source = <<"None">>
              /\ \A m \in PdsCaAdoptionMethods : Times(m) = 1
    /\ ac_bound.soln_pds_adoption_basis = "Existing Adoption Prognostications" =>
         /\ \A m \in PdsCaAdoptionMethods : ~Invoked(m)
         /\ nuclear.pc \in {"anchors", "ef", "ua", "fc", "oc", "c4", "c2", "r2s", "done"} =>
              /\ nuclear.locals.pds_adoption_data_per_region = <<"self.ad.adoption_data_per_region()">>
              /\ nuclear.locals.pds_adoption_trend_per_region = <<"self.ad.adoption_trend_per_region()">>
              /\ nuclear.locals.pds_adoption_is_single_source = <<"self.ad.adoption_is_single_source()">>
              /\ \A m \in AdAdoptionMethods : Times(m) = 1
    /\ \A kwargs \in CallsTo("helpertables.HelperTables") :
         /\ <<kwargs.pds_adoption_data_per_region>> = nuclear.locals.pds_adoption_data_per_region
         /\ <<kwargs.pds_adoption_trend_per_region>> = nuclear.locals.pds_adoption_trend_per_region
         /\ <<kwargs.pds_adoption_is_single_source>> = nuclear.locals.pds_adoption_is_single_source

C14_Witness ==
  /\ nuclear.pc = "done"
  /\ nuclear.self.scenario = <<"PDS-0p2050-Optimum (Book Ed.1)">>
  /\ ac_bound.soln_pds_adoption_basis = "Fully Customized PDS"
  /\ \E kwargs \in CallsTo("helpertables.HelperTables") :
       /\ kwargs.pds_adoption_data_per_region = "self.pds_ca.adoption_data_per_region()"
       /\ kwargs.pds_adoption_is_single_source = "None"
  /\ Invoked("self.pds_ca.adoption_trend_per_region")

\* the anchors are computed: lines 666-680 have run
anchored == nuclear.locals.ht_ref_datapoints # <<>>
ref_tam == nuclear.locals.ref_tam_per_region[1]
pds_tam == nuclear.locals.pds_tam_per_region[1]
ref_anchor(c) == nuclear.locals.ht_ref_datapoints[1][2050][c]
pds_anchor(c) == nuclear.locals.ht_pds_datapoints[1][2050][c]
positive(x) == x.kind = "num" /\ x.num > 0

\* C15: for every region the end anchor of the reference pathway is the
\* start-year adoption times (market size of 2050 / market size of 2014); it
\* is 0.0 whenever either market size is zero, it is never infinite or
\* missing, and computing it raises nothing.
C15_RefEndAnchor ==
  anchored =>
    \A c \in Columns :
      /\ ref_anchor(c).kind = "num"
      /\ (is_zero(ref_tam[2014][c]) \/ is_zero(ref_tam[2050][c])) => ref_anchor(c) = float_zero
      /\ (positive(ref_tam[2014][c]) /\ positive(ref_tam[2050][c])) =>
           ref_anchor(c) = float_mul(ht_ref_adoption_initial[c],
                                     float_div(ref_tam[2050][c], ref_tam[2014][c]))

\* the final adoption percentage the configuration gives for a region
final_percentage(c) ==
  LET pairs == ac_bound.pds_adoption_final_percentage
  IN  float_literal(pairs[CHOOSE i \in 1..Len(pairs) : pairs[i][1] = c][2])

\* C16: for every region the end anchor of the intervention pathway is the
\* configured final adoption percentage of the region times the intervention
\* market size of 2050, and 0.0 where that market size is 0.0 or missing.
C16_PdsEndAnchor ==
  anchored =>
    \A c \in Columns :
      /\ positive(pds_tam[2050][c]) => pds_anchor(c) = float_mul(final_percentage(c), pds_tam[2050][c])
      /\ (is_zero(pds_tam[2050][c]) \/ pds_tam[2050][c].kind = "nan") => pds_anchor(c) = float_zero

C16_Witness ==
  /\ anchored
  /\ ac_bound.pds_adoption_final_percentage = half_of_market
  /\ pds_tam[2050]["World"] = float_of(3)
  /\ pds_anchor("World") = [kind |-> "num", lit |-> <<"0.5">>, num |-> 3, den |-> 1]
  /\ pds_tam[2050]["Eastern Europe"] = float_nan
  /\ pds_anchor("Eastern Europe") = float_zero
  /\ pds_tam[2014]["World"] # pds_tam[2050]["World"]

\* where in the history a callee was called
Pos(callee) == {i \in 1..Len(calls) : calls[i].callee = callee}
Once(callee) == Cardinality(Pos(callee)) <= 1
Before(a, b) == \A i \in Pos(a), j \in Pos(b) : i < j
Requires(b, a) == Pos(b) # {} => Pos(a) # {}

\* the stages that follow the configuration, by the collaborator each builds
Stages ==
  <<"tam.TAM", "adoptiondata.AdoptionData", "helpertables.HelperTables",
    "unitadoption.UnitAdoption", "firstcost.FirstCost", "operatingcost.OperatingCost">>

\* the methods __init__ calls on each collaborator it has built
MethodsOf ==
  [builder \in {"tam.TAM", "adoptiondata.AdoptionData", "customadoption.CustomAdoption",
                "helpertables.HelperTables", "unitadoption.UnitAdoption", "firstcost.FirstCost",
                "ch4calcs.CH4Calcs", "emissionsfactors.ElectricityGenOnGrid"} |->
     IF builder = "tam.TAM"
     THEN {"self.tm.ref_tam_per_region", "self.tm.pds_tam_per_region"}
     ELSE IF builder = "adoptiondata.AdoptionData" THEN AdAdoptionMethods
     ELSE IF builder = "customadoption.CustomAdoption"
     THEN PdsCaAdoptionMethods \cup {"self.ref_ca.adoption_data_per_region"}
     ELSE IF builder = "helpertables.HelperTables"
     THEN {"self.ht.soln_ref_funits_adopted", "self.ht.soln_pds_funits_adopted"}
     ELSE IF builder = "unitadoption.UnitAdoption"
     THEN {"self.ua.soln_pds_tot_iunits_reqd", "self.ua.soln_ref_tot_iunits_reqd",
           "self.ua.conv_ref_tot_iunits", "self.ua.soln_net_annual_funits_adopted",
           "self.ua.soln_pds_new_iunits_reqd", "self.ua.soln_ref_new_iunits_reqd",
           "self.ua.conv_ref_new_iunits", "self.ua.conv_ref_annual_tot_iunits",
           "self.ua.soln_pds_net_grid_electricity_units_saved",
           "self.ua.soln_pds_net_grid_electricity_units_used",
           "self.ua.soln_pds_direct_co2_emissions_saved",
           "self.ua.soln_pds_direct_ch4_co2_emissions_saved",
           "self.ua.soln_pds_direct_n2o_co2_emissions_saved"}
     ELSE IF builder = "firstcost.FirstCost"
     THEN {"self.fc.soln_pds_annual_world_first_cost", "self.fc.soln_ref_annual_world_first_cost",
           "self.fc.conv_ref_annual_world_first_cost", "self.fc.soln_pds_install_cost_per_iunit",
           "self.fc.conv_ref_install_cost_per_iunit"}
     ELSE IF builder = "ch4calcs.CH4Calcs" THEN {"self.c4.ch4_ppb_calculator"}
     ELSE {"self.ef.conv_ref_grid_CO2_per_KWh", "self.ef.conv_ref_grid_CO2eq_per_KWh"}]

AllCallees ==
  DOMAIN MethodsOf \cup UNION {MethodsOf[b] : b \in DOMAIN MethodsOf}
    \cup {"operatingcost.OperatingCost", "co2calcs.CO2Calcs", "rrs.RRS"}

StageOrder ==
  /\ calls # <<>> => bound
  /\ \A i \in 1..Len(calls) : calls[i].callee \in AllCallees
  /\ \A k \in 1..Len(Stages) : Once(Stages[k])
  /\ \A k \in 1..(Len(Stages) - 1) :
       Requires(Stages[k + 1], Stages[k]) /\ Before(Stages[k], Stages[k + 1])
  /\ Cardinality(Pos("customadoption.CustomAdoption")) <= 2
  /\ \A m \in MethodsOf["tam.TAM"] :
       /\ Once(m)
       /\ Pos("adoptiondata.AdoptionData") # {} => Pos(m) # {}
       /\ Before(m, "adoptiondata.AdoptionData") /\ Before(m, "customadoption.CustomAdoption")
  /\ \A m \in MethodsOf["adoptiondata.AdoptionData"] \cup MethodsOf["customadoption.CustomAdoption"] :
       /\ Once(m)
       /\ Before("customadoption.CustomAdoption", m)
       /\ Before(m, "helpertables.HelperTables")
  /\ \A c \in {"ch4calcs.CH4Calcs", "co2calcs.CO2Calcs"} :
       Once(c) /\ Requires(c, "unitadoption.UnitAdoption") /\ Before("unitadoption.UnitAdoption", c)
  /\ \A b \in DOMAIN MethodsOf : \A m \in MethodsOf[b] :
       \A j \in Pos(m) : \E i \in Pos(b) : i < j

StageRank ==
  [pc \in {"idle", "tam", "adoption", "resolve", "anchors", "ef", "ua", "fc", "oc", "c4", "c2",
           "r2s", "done", "failed"} |->
     IF pc = "idle" THEN 0 ELSE IF pc = "tam" THEN 1 ELSE IF pc = "adoption" THEN 2
     ELSE IF pc = "resolve" THEN 3 ELSE IF pc = "anchors" THEN 4 ELSE IF pc = "ef" THEN 5
     ELSE IF pc = "ua" THEN 6 ELSE IF pc = "fc" THEN 7 ELSE IF pc = "oc" THEN 8
     ELSE IF pc = "c4" THEN 9 ELSE IF pc = "c2" THEN 10 ELSE IF pc = "r2s" THEN 11
     ELSE 12]

\* a step of a construction moves to a later statement and adds to the history
\* of its calls; only a new construction starts over
StageStep ==
  IF nuclear.pc \in {"idle", "done", "failed"}
  THEN nuclear'.pc \in {"tam", "failed"} /\ calls' = <<>>
  ELSE /\ StageRank[nuclear'.pc] > StageRank[nuclear.pc]
       /\ Len(calls') >= Len(calls)
       /\ SubSeq(calls', 1, Len(calls)) = calls
       /\ nuclear'.self.scenario = nuclear.self.scenario

HandledBasis == {"Fully Customized PDS", "Existing Adoption Prognostications"}

\* C18: with a soln_pds_adoption_basis the constructor has no branch for, the
\* construction never gets past the anchors: it ends in an error
\* (UnboundLocalError, unless a data source failed before), the caller receives
\* no object and no interpolation is built; every construction for that
\* configuration ends the same way.
C18_UnhandledBasisFails ==
  /\ (bound /\ ac_bound.soln_pds_adoption_basis \notin HandledBasis) =>
       /\ nuclear.pc \in {"tam", "adoption", "resolve", "anchors", "failed"}
       /\ nuclear.object = <<>>
       /\ nuclear.self.ht = <<>>
       /\ nuclear.pc = "failed" => nuclear.outcome \in {"UnboundLocalError", "UnknownDataSource"}
       /\ (nuclear.pc = "failed" /\ ac_bound.ref_source_post_2014 \in known_sources(tam_ref_data_sources))
            => nuclear.outcome = "UnboundLocalError"
  /\ \A i \in 1..Len(constructions) :
       (/\ constructions[i].scenario \in DOMAIN scenarios
        /\ scenarios[constructions[i].scenario].soln_pds_adoption_basis \notin HandledBasis)
         => /\ constructions[i].outcome # "return"
            /\ \A j \in 1..Len(constructions) :
                 constructions[j].scenario = constructions[i].scenario
                   => constructions[j].outcome = constructions[i].outcome

C18_Witness ==
  /\ bound
  /\ ac_bound.soln_pds_adoption_basis = "Linear"
  /\ nuclear.pc = "failed"
  /\ nuclear.outcome = "UnboundLocalError"
  /\ nuclear.object = <<>>
  /\ nuclear.locals.ht_ref_datapoints # <<>>
  /\ constructions =
       <<[scenario |-> ExtraScenario, outcome |-> "UnboundLocalError"],
         [scenario |-> ExtraScenario, outcome |-> "UnboundLocalError"]>>

\* the source selections of a configuration that name an entry of a catalog of
\* solution/nuclear; an unset selection names nothing
unknown_sources(ac) ==
  {name \in {ac.source_until_2014, ac.ref_source_post_2014} :
     name \notin known_sources(tam_ref_data_sources)}
  \cup {name \in {ac.soln_pds_adoption_prognostication_source} \ {"None"} :
          name \notin known_sources(ad_data_sources)}

\* C19: every name the source selections of a scenario reference is a key of
\* the catalog; a construction bound to a configuration that references an
\* unknown name fails with the unknown-data-source error before any
\* collaborator is built, any of their methods is called and any table is
\* computed.
C19_UnknownSourceFailsFast ==
  /\ \A name \in DefinedScenarios : unknown_sources(defined_scenarios[name]) = {}
  /\ (bound /\ unknown_sources(ac_bound) # {}) =>
       /\ nuclear.self.tm = <<>>
       /\ \A i \in 1..Len(calls) : calls[i].callee = "tam.TAM"
       /\ nuclear.locals.ref_tam_per_region = <<>>
       /\ nuclear.pc \in {"tam", "failed"}
       /\ nuclear.pc = "failed" => nuclear.outcome = "UnknownDataSource"

RegistryKept ==
  /\ scenarios \in Registries
  /\ bound => /\ nuclear.self.scenario[1] \in DOMAIN scenarios
              /\ ac_bound = scenarios[nuclear.self.scenario[1]]

\* C20: a construction, completed or failed, changes no field of the
\* configuration it is bound to and nothing in the scenario registry: after
\* any sequence of constructions every named scenario has the configuration
\* it had at first.
C20_ConfigurationUnchanged == [](RegistryKept) /\ [][scenarios' = scenarios]_vars

C20_Witness ==
  /\ ExtraScenario \in DOMAIN scenarios
  /\ scenarios[ExtraScenario].soln_pds_adoption_basis = "Linear"
  /\ \A name \in DefinedScenarios : scenarios[name] = defined_scenarios[name]
  /\ nuclear.pc = "done"
  /\ constructions =
       <<[scenario |-> ExtraScenario, outcome |-> "UnboundLocalError"],
         [scenario |-> "PDS-0p2050-Optimum (Book Ed.1)", outcome |-> "return"]>>

-----------------------------------------------------------------------------
(* Properties of concurrent runs on the memoized builders *)

\* the tables returned to any run so far, each with the engine it was asked of
ReturnedTo(r) == {runs[r].got[i] : i \in 1..Len(runs[r].got)}

AllReturned ==
  UNION {{[ef |-> runs[r].ef, t |-> t] : t \in ReturnedTo(r)} : r \in 1..MaxRuns}

\* every table a run holds has the content it had when it was returned, every
\* call of a builder of an engine returned equal content, what CO2Calcs read is
\* that content, and the cache holds a frame of that content
TablesKept ==
  /\ \A x \in AllReturned : frames[x.t.ref] = <<x.t.table>>
  /\ \A x, y \in AllReturned :
       (x.ef = y.ef /\ x.t.builder = y.t.builder) => x.t.table = y.t.table
  /\ \A r \in 1..MaxRuns :
       runs[r].pc = "done" =>
         runs[r].seen = <<runs[r].got[1].table, runs[r].got[2].table>>
  /\ \A x \in AllReturned :
       LET cache == IF x.t.builder = "conv_ref_grid_CO2_per_KWh" THEN cache_CO2 ELSE cache_CO2eq
       IN  cache_has(cache, x.ef) /\ frames[cache_get(cache, x.ef)] = <<x.t.table>>

\* no step of any run writes to a frame that has been returned
ReturnedFramesKept == \A x \in AllReturned : frames'[x.t.ref] = frames[x.t.ref]

\* C21: a memoized grid table is never changed after it is first built.  In
\* every interleaving of the steps of concurrent runs that ask one engine for
\* its two grid tables and hand them to CO2Calcs,
\* every call returns a table equal to the one first returned for that engine
\* and builder, no step writes to a returned frame, and every run reads the
\* content its tables had when they were returned.
C21_MemoizedTableNeverChanged == [](TablesKept) /\ [][ReturnedFramesKept]_vars

\* two runs on one engine: the CO2 table of the second is the cached frame of
\* the first, the CO2-eq tables are two frames built side by side
C21_Witness ==
  /\ runs[1].pc = "done" /\ runs[2].pc = "done"
  /\ runs[1].ef = runs[2].ef
  /\ runs[1].got[1].ref = runs[2].got[1].ref
  /\ runs[1].got[2].ref # runs[2].got[2].ref
  /\ runs[1].got[2].table = runs[2].got[2].table
  /\ runs[1].got[2].table["World"][2015] # NaN
  /\ Cardinality({ref \in FrameRefs : frames[ref] # <<>>}) = 3

-----------------------------------------------------------------------------
(* Properties of the configuration tables *)

\* the two tables, once built, and the tables the collaborators were given
TamConfigs ==
  {nuclear.locals.tamconfig[i] : i \in 1..Len(nuclear.locals.tamconfig)}
    \cup {k.tamconfig : k \in CallsTo("tam.TAM")}
AdConfigs ==
  {nuclear.locals.adconfig[i] : i \in 1..Len(nuclear.locals.adconfig)}
    \cup {k.adconfig : k \in CallsTo("adoptiondata.AdoptionData")}

Regional == Columns \ {"World"}

\* C22: only the World columns of the two configuration tables take values
\* from the scenario.  In the TAM table 'World' holds source_until_2014 and
\* ref_source_post_2014, 'PDS World' holds source_until_2014 and
\* pds_source_post_2014, and the nine other regions hold 'ALL SOURCES' twice;
\* in the adoption table 'World' holds the configured prognostication trend
\* and growth and the nine other regions hold '3rd Poly' and 'Medium'; both
\* multipliers are 1.0 for every column of both tables.
C22_WorldColumnsFromScenario ==
  /\ \A t \in TamConfigs :
       /\ DOMAIN t = {"source_until_2014", "source_after_2014", "trend", "growth",
                      "low_sd_mult", "high_sd_mult"}
       /\ \A row \in DOMAIN t : DOMAIN t[row] = {"World", "PDS World"} \cup Columns
       /\ t.source_until_2014["World"] = ac_bound.source_until_2014
       /\ t.source_after_2014["World"] = ac_bound.ref_source_post_2014
       /\ t.source_until_2014["PDS World"] = ac_bound.source_until_2014
       /\ t.source_after_2014["PDS World"] = ac_bound.pds_source_post_2014
       /\ \A c \in Regional :
            t.source_until_2014[c] = "ALL SOURCES" /\ t.source_after_2014[c] = "ALL SOURCES"
       /\ \A c \in DOMAIN t.trend : t.trend[c] = "3rd Poly" /\ t.growth[c] = "Medium"
       /\ \A c \in DOMAIN t.low_sd_mult : t.low_sd_mult[c] = "1.0" /\ t.high_sd_mult[c] = "1.0"
  /\ \A a \in AdConfigs :
       /\ DOMAIN a = {"trend", "growth", "low_sd_mult", "high_sd_mult"}
       /\ \A row \in DOMAIN a : DOMAIN a[row] = Columns
       /\ a.trend["World"] = ac_bound.soln_pds_adoption_prognostication_trend
       /\ a.growth["World"] = ac_bound.soln_pds_adoption_prognostication_growth
       /\ \A c \in Regional : a.trend[c] = "3rd Poly" /\ a.growth[c] = "Medium"
       /\ \A c \in Columns : a.low_sd_mult[c] = "1.0" /\ a.high_sd_mult[c] = "1.0"
  /\ Invoked("tam.TAM") => nuclear.locals.tamconfig # <<>>
  /\ Invoked("adoptiondata.AdoptionData") => nuclear.locals.adconfig # <<>>

\* a scenario whose World selections differ from the regional defaults
C22_Witness ==
  /\ nuclear.pc = "done"
  /\ ac_bound.source_until_2014 = "Baseline Cases"
  /\ \E t \in CallsTo("tam.TAM") :
       /\ t.tamconfig.source_until_2014["World"] = "Baseline Cases"
       /\ t.tamconfig.source_until_2014["PDS World"] = "Baseline Cases"
       /\ t.tamconfig.source_until_2014["OECD90"] = "ALL SOURCES"
       /\ t.tamconfig.source_after_2014["World"] = "Baseline Cases"
       /\ t.tamconfig.source_after_2014["PDS World"] =
            "Drawdown TAM: Drawdown TAM - Post Integration - Plausible Scenario"
  /\ \E a \in CallsTo("adoptiondata.AdoptionData") :
       a.adconfig.growth["World"] = "High" /\ a.adconfig.growth["USA"] = "Medium"

-----------------------------------------------------------------------------
(* Properties of the market tables *)

MarketMethods == MethodsOf["tam.TAM"]

PastMarket == {"adoption", "resolve", "anchors", "ef", "ua", "fc", "oc", "c4", "c2", "r2s", "done"}

\* the limit a CustomAdoption was built with, by the data sources it was given
limit_of(data_sources) ==
  {k.total_adoption_limit : k \in {c \in CallsTo("customadoption.CustomAdoption") :
                                     c.data_sources = data_sources}}

\* C23: tam.TAM is built once and asked once for the reference market and
\* once for the intervention market, both before AdoptionData or a
\* CustomAdoption is built.  From then on the reference table is the limit of
\* the reference CustomAdoption and the reference limit of HelperTables, and
\* the intervention table is the limit of the intervention CustomAdoption and
\* the intervention limit of HelperTables; a reference table is never in the
\* place of an intervention table.
C23_MarketTablesNotSwapped ==
  /\ Times("tam.TAM") <= 1
  /\ \A m \in MarketMethods :
       /\ Times(m) <= 1
       /\ Before(m, "adoptiondata.AdoptionData")
       /\ Before(m, "customadoption.CustomAdoption")
       /\ \A a \in AdAdoptionMethods \cup PdsCaAdoptionMethods
                    \cup {"self.ref_ca.adoption_data_per_region"} : Before(m, a)
  /\ nuclear.pc \in PastMarket =>
       /\ Times("tam.TAM") = 1
       /\ \A m \in MarketMethods : Times(m) = 1
       /\ Before("self.tm.ref_tam_per_region", "self.tm.pds_tam_per_region")
       /\ nuclear.locals.ref_tam_per_region[1] \in {p.ref : p \in TamProjections}
       /\ nuclear.locals.pds_tam_per_region[1] \in {p.pds : p \in TamProjections}
       /\ nuclear.locals.ref_tam_per_region # nuclear.locals.pds_tam_per_region
  /\ \A limit \in limit_of("ca_ref_data_sources") : <<limit>> = nuclear.locals.ref_tam_per_region
  /\ \A limit \in limit_of("ca_pds_data_sources") : <<limit>> = nuclear.locals.pds_tam_per_region
  /\ \A k \in CallsTo("helpertables.HelperTables") :
       /\ <<k.ref_adoption_limits>> = nuclear.locals.ref_tam_per_region
       /\ <<k.pds_adoption_limits>> = nuclear.locals.pds_tam_per_region
  /\ \A k \in CallsTo("unitadoption.UnitAdoption") :
       /\ <<k.ref_tam_per_region>> = nuclear.locals.ref_tam_per_region
       /\ <<k.pds_tam_per_region>> = nuclear.locals.pds_tam_per_region

C23_Witness ==
  /\ nuclear.pc = "done"
  /\ Times("self.tm.ref_tam_per_region") = 1 /\ Times("self.tm.pds_tam_per_region") = 1
  /\ limit_of("ca_ref_data_sources") = {tam_per_region(RefSizes, 1, 2)}
  /\ limit_of("ca_pds_data_sources") = {tam_per_region(PdsSizes, 2, 1)}
  /\ \E k \in CallsTo("helpertables.HelperTables") :
       /\ k.ref_adoption_limits = tam_per_region(RefSizes, 1, 2)
       /\ k.pds_adoption_limits = tam_per_region(PdsSizes, 2, 1)
       /\ k.ref_adoption_limits[2050]["World"] = float_of(2)
       /\ k.pds_adoption_limits[2050]["World"] = float_of(3)

-----------------------------------------------------------------------------
(* Properties of the reference pathway *)

PastResolve == {"anchors", "ef", "ua", "fc", "oc", "c4", "c2", "r2s", "done"}

\* C24: the reference adoption data handed to HelperTables is the table of
\* self.ref_ca exactly when soln_ref_adoption_basis is 'Custom'.  For
\* 'Default' and for any other basis it is None, self.ref_ca is not asked for
\* its table, and the branch raises nothing: the construction goes on to the
\* intervention branch and, when that one binds its locals, to HelperTables.
C24_RefAdoptionByBasis ==
  bound =>
    /\ ac_bound.soln_ref_adoption_basis = "Custom" =>
         /\ Times("self.ref_ca.adoption_data_per_region") <= 1
         /\ nuclear.locals.ref_adoption_data_per_region \in
              {<<>>, <<"self.ref_ca.adoption_data_per_region()">>}
         /\ nuclear.pc \in PastResolve =>
              /\ Times("self.ref_ca.adoption_data_per_region") = 1
              /\ nuclear.locals.ref_adoption_data_per_region =
                   <<"self.ref_ca.adoption_data_per_region()">>
    /\ ac_bound.soln_ref_adoption_basis # "Custom" =>
         /\ ~Invoked("self.ref_ca.adoption_data_per_region")
         /\ nuclear.locals.ref_adoption_data_per_region \in {<<>>, <<"None">>}
         /\ nuclear.pc \in PastResolve =>
              nuclear.locals.ref_adoption_data_per_region = <<"None">>
         /\ (nuclear.pc = "failed" /\ Invoked("customadoption.CustomAdoption")) =>
              /\ nuclear.locals.ref_adoption_data_per_region = <<"None">>
              /\ \/ ac_bound.soln_pds_adoption_basis \notin HandledBasis
                 \/ unknown_sources(ac_bound) # {}
    /\ \A k \in CallsTo("helpertables.HelperTables") :
         /\ <<k.ref_adoption_data_per_region>> = nuclear.locals.ref_adoption_data_per_region
         /\ k.ref_adoption_data_per_region = "self.ref_ca.adoption_data_per_region()"
              <=> ac_bound.soln_ref_adoption_basis = "Custom"

\* a basis that is neither 'Custom' nor 'Default': None is handed over and
\* the construction completes
C24_Witness ==
  /\ nuclear.pc = "done"
  /\ ac_bound.soln_ref_adoption_basis = "Linear"
  /\ \E k \in CallsTo("helpertables.HelperTables") : k.ref_adoption_data_per_region = "None"
  /\ ~Invoked("self.ref_ca.adoption_data_per_region")
  /\ constructions =
       <<[scenario |-> default_scenario, outcome |-> "return"],
         [scenario |-> ExtraScenario, outcome |-> "return"]>>

-----------------------------------------------------------------------------
(* Properties of the lifetime of the CO2-equivalence factors *)

\* a step keeps every record that exists, in its place, with its fields
FactorsKept ==
  /\ Len(co2equivs') >= Len(co2equivs)
  /\ \A i \in 1..Len(co2equivs) : co2equivs'[i] = co2equivs[i]

\* a resolution for a value that is given and is no member of the enumeration
\* raises, returns no record and adds none
NoFactorsForOtherValues ==
  (last.op = "CO2Equiv" /\ truthy(last.arg) /\ last.arg \notin CO2EQ_SOURCE) =>
    /\ last.outcome = "ValueError"
    /\ last.object = <<>>
  /\ \A i \in 1..Len(co2equivs) : co2equivs[i].conversion_source \in CO2EQ_SOURCE

\* C25: CO2Equiv of a truthy value that is none of the three standards raises
\* and yields no factors record; and a record, once made, keeps its
\* CH4multiplier and N2Omultiplier in every later step: neither a later
\* resolution nor a call of a builder of the engine writes them.
C25_FactorsFailOrStay == [](NoFactorsForOtherValues) /\ [][FactorsKept]_vars

C25_Witness ==
  /\ last.op = "CO2Equiv" /\ last.arg = "bogus" /\ last.outcome = "ValueError"
  /\ Len(co2equivs) = 2
  /\ co2equivs[1].CH4multiplier = 21 /\ co2equivs[1].N2Omultiplier = 310
  /\ co2equivs[2].CH4multiplier = 34 /\ co2equivs[2].N2Omultiplier = 298
  /\ cache_CO2eq # <<>> /\ cache_CO2 # <<>>

-----------------------------------------------------------------------------
(* Termination of the constructor *)

Collaborators ==
  {"tm", "ad", "pds_ca", "ref_ca", "ht", "ef", "ua", "fc", "oc", "c4", "c2", "r2s"}

\* the construction for scenario name has begun and has not ended
Constructing(name) ==
  /\ nuclear.pc \notin {"idle", "done", "failed"}
  /\ nuclear.self.scenario = <<name>>

\* the caller holds the object for scenario name, every collaborator bound
\* and every stage run once
Constructed(name) ==
  /\ nuclear.pc = "done"
  /\ nuclear.outcome = "return"
  /\ Len(nuclear.object) = 1
  /\ nuclear.object[1].scenario = <<name>>
  /\ nuclear.object[1].ac = <<defined_scenarios[name]>>
  /\ \A f \in Collaborators : nuclear.object[1][f] # <<>>
  /\ \A k \in 1..Len(Stages) : Times(Stages[k]) = 1
  /\ Times("customadoption.CustomAdoption") = 2
  /\ Times("emissionsfactors.ElectricityGenOnGrid") = 1
  /\ Times("ch4calcs.CH4Calcs") = 1
  /\ Times("co2calcs.CO2Calcs") = 1
  /\ Times("rrs.RRS") = 1

\* no construction for a defined scenario ends in an error
NeverFails ==
  /\ nuclear.pc = "failed" => nuclear.self.scenario[1] \notin DefinedScenarios
  /\ \A i \in 1..Len(constructions) :
       constructions[i].scenario \in DefinedScenarios => constructions[i].outcome = "return"

\* C26: for each of the three defined scenarios a construction that has
\* begun ends: it is not abandoned, begun again or failed, and it arrives at
\* the object with all twelve collaborators bound, each stage having run
\* exactly once.
C26_ConstructionFinishes ==
  /\ [](NeverFails)
  /\ \A name \in DefinedScenarios : Constructing(name) ~> Constructed(name)

C26_Witness ==
  /\ Constructed("PDS-0p2050-Optimum (Book Ed.1)")
  /\ constructions =
       <<[scenario |-> "PDS-10p2050-Drawdown Scenario", outcome |-> "return"],
         [scenario |-> "PDS-0p2050-Optimum (Book Ed.1)", outcome |-> "return"]>>

-----------------------------------------------------------------------------
(* No dataset for the grid source and version *)

\* the last call named no dataset: META with a version other than 1 and 2,
\* or a grid source that is neither IPCC nor META
without_dataset ==
  \/ last_source = "GRID_SOURCE.META" /\ last_version \notin {1, 2}
  \/ last_source \notin {"GRID_SOURCE.IPCC", "GRID_SOURCE.META"}

\* C27: with a grid range of MEAN, HIGH or LOW and no dataset for the grid
\* source and version, the CO2-eq builder raises (UnboundLocalError, the
\* local name grid being unbound): it returns no table, no table with an
\* unpopulated World column is recorded as built, and the cache holds
\* nothing for the engine.
C27_NoDatasetFails ==
  ( /\ last.op = "conv_ref_grid_CO2eq_per_KWh"
    /\ last_range \in GRID_RANGE
    /\ without_dataset ) =>
    /\ last.outcome = "UnboundLocalError"
    /\ last.table = <<>>
    /\ built = {}
    /\ ~cache_has(cache_CO2eq, last.engine)
    /\ cache_CO2eq = <<>>

C27_Witness ==
  /\ last.op = "conv_ref_grid_CO2eq_per_KWh"
  /\ last_source = "GRID_SOURCE.META" /\ last_version = 3
  /\ last_range = "GRID_RANGE.LOW"
  /\ last.outcome = "UnboundLocalError"
  /\ ~last.hit
  /\ cache_CO2eq = <<>>

-----------------------------------------------------------------------------
(* The rows of the anchor tables *)

ref_datapoints == nuclear.locals.ht_ref_datapoints[1]
pds_datapoints == nuclear.locals.ht_pds_datapoints[1]

\* scenario.pds_base_adoption as a Series of floats
base_adoption(ac) ==
  Series([i \in 1..Len(ac.pds_base_adoption) |-> float_literal(ac.pds_base_adoption[i][2])],
         [i \in 1..Len(ac.pds_base_adoption) |-> ac.pds_base_adoption[i][1]])

\* C28: both anchor tables have exactly the rows 2014 and 2050, whatever
\* report_start_year and report_end_year the scenario configures; the row of
\* 2014 is the same in both tables, and for each of the three defined
\* scenarios it is the scenario's pds_base_adoption, region by region.
C28_AnchorRows ==
  anchored =>
    /\ DOMAIN ref_datapoints = {2014, 2050}
    /\ DOMAIN pds_datapoints = {2014, 2050}
    /\ DOMAIN ref_datapoints[2014] = Columns
    /\ ref_datapoints[2014] = pds_datapoints[2014]
    /\ nuclear.self.scenario[1] \in DefinedScenarios =>
         /\ DOMAIN base_adoption(ac_bound) = Columns
         /\ \A c \in Columns : ref_datapoints[2014][c] = base_adoption(ac_bound)[c]
         /\ \A c \in Columns : pds_datapoints[2014][c] = base_adoption(ac_bound)[c]

C28_Witness ==
  /\ anchored
  /\ nuclear.self.scenario[1] = ExtraScenario
  /\ ac_bound.report_start_year = 2025
  /\ ac_bound.report_end_year = 2040
  /\ DOMAIN pds_datapoints = {2014, 2050}
  /\ pds_datapoints[2014]["USA"] = float_literal("822.7334922881862")

-----------------------------------------------------------------------------
(* The scenario name *)

\* the argument of the construction last begun
named == nuclear.scenario

\* C29: a construction without a scenario name is bound to
\* 'PDS-12p2050-Plausible (Book Ed. 1)' and to its configuration; a construction
\* with a name the registry does not hold (the registry of the source holds
\* the three defined scenarios) raises KeyError at once: no configuration
\* table is built, no collaborator is invoked, no object is returned.
C29_ScenarioName ==
  nuclear.pc # "idle" =>
    /\ named = "None" =>
         /\ nuclear.self.scenario = <<"PDS-12p2050-Plausible (Book Ed. 1)">>
         /\ bound
         /\ nuclear.pc # "failed" => scenarios["PDS-12p2050-Plausible (Book Ed. 1)"] = ac_bound
    /\ (named # "None" /\ named \notin DOMAIN scenarios) =>
         /\ nuclear.pc = "failed"
         /\ nuclear.outcome = "KeyError"
         /\ nuclear.self.scenario = <<named>>
         /\ ~bound
         /\ nuclear.locals = NoLocals
         /\ calls = <<>>
         /\ nuclear.object = <<>>
    /\ (named # "None" /\ named \notin DefinedScenarios /\ scenarios = defined_scenarios) =>
         nuclear.outcome = "KeyError"

C29_Witness ==
  /\ scenarios = defined_scenarios
  /\ constructions =
       <<[scenario |-> ExtraScenario, outcome |-> "KeyError"],
         [scenario |-> "PDS-12p2050-Plausible (Book Ed. 1)", outcome |-> "return"]>>
  /\ named = "None"
  /\ nuclear.pc = "done"
  /\ nuclear.object[1].ac = <<scenario_plausible>>

-----------------------------------------------------------------------------
(* The engine of a construction *)

\* the engine self.ef refers to, once line 689 has run
has_engine == nuclear.self.ef # <<>>
self_ef == engines[nuclear.self.ef[1]]

\* C30: every engine a construction builds has grid-emissions version 1 and
\* the configuration the construction is bound to; the two grid tables handed
\* to CO2Calcs are the tables of that engine, and for a grid source of META
\* the World column of the CO2-eq table holds, for every year, the value of
\* the META version 1 dataset, which is not the column of META version 2.
C30_EngineVersionOne ==
  /\ \A e \in 1..Len(engines) : engines[e].grid_emissions_version = 1
  /\ has_engine =>
       /\ self_ef = ElectricityGenOnGrid(ac_bound, 1)
       /\ nuclear.self.ef = <<Len(engines)>>
  /\ \A kwargs \in CallsTo("co2calcs.CO2Calcs") :
       /\ has_engine
       /\ kwargs.ac = ac_bound
       /\ kwargs.conv_ref_grid_CO2eq_per_KWh = conv_ref_grid_CO2eq_per_KWh(self_ef).value
       /\ kwargs.conv_ref_grid_CO2_per_KWh = conv_ref_grid_CO2_per_KWh(self_ef).value
       /\ kwargs.conv_ref_grid_CO2eq_per_KWh = cache_get(cache_CO2eq, nuclear.self.ef[1])
       /\ kwargs.conv_ref_grid_CO2_per_KWh = cache_get(cache_CO2, nuclear.self.ef[1])
       /\ ac_bound.emissions_grid_source = "GRID_SOURCE.META" =>
            /\ \A year \in Years :
                 kwargs.conv_ref_grid_CO2eq_per_KWh["World"][year] =
                   value_for_year(world_meta_1, selected_column(ac_bound.emissions_grid_range), year)
            /\ \E year \in Years :
                 kwargs.conv_ref_grid_CO2eq_per_KWh["World"][year] #
                   value_for_year(world_meta_2, selected_column(ac_bound.emissions_grid_range), year)

C30_Witness ==
  /\ nuclear.pc = "done"
  /\ nuclear.self.scenario = <<"PDS-0p2050-Optimum (Book Ed.1)">>
  /\ ac_bound.emissions_grid_source = "GRID_SOURCE.META"
  /\ Len(engines) = 2
  /\ nuclear.self.ef = <<2>>
  /\ Times("co2calcs.CO2Calcs") = 1
  /\ \A kwargs \in CallsTo("co2calcs.CO2Calcs") :
       kwargs.conv_ref_grid_CO2eq_per_KWh["World"][2015] = world_meta_1[1].medium

====
